---- MODULE Spec2Model ----
(***************************************************************************)
(* FlexiCity demand-response scheduler: the modular engine (logic.py,      *)
(* database.py and the FlexiCityApp callbacks of ui_tk.py) and the         *)
(* monolithic engine (SmartLDS ver1.0, second half of ui_tk.py).           *)
(*                                                                         *)
(* Numbers.  The program computes with floats; the model computes the same *)
(* expressions exactly, in fixed point:                                    *)
(*   power_kw                 1/PowerScale kW           (80.0 kW = 8000)    *)
(*   flex_participation, price_weight   tenths          (1.0 = One = 10)    *)
(*   loads                    1/(PowerScale*One) kW     (40.0 = 40000)      *)
(*                            a 24-element list; hour h is element h + 1   *)
(*   PRICE_PER_HOUR           1/100 cent                (8.70 = 870)        *)
(*   cost accumulators        load unit x price unit, kept as a two-limb   *)
(*                            number <<hi, lo>> = hi * WB + lo              *)
(* A score w_grid * l_norm + w_price * p_norm is kept as its two           *)
(* numerators over the window's common denominators and compared exactly.  *)
(* The owner field of an asset is free text that no computation reads; it  *)
(* is left out of the asset record.                                        *)
(***************************************************************************)
EXTENDS Integers, Sequences, FiniteSets, TLC

NUM_HOURS == 24

Hours == 0 .. (NUM_HOURS - 1)

PowerScale == 10 * 10

One == 100 \div 10

LoadScale == PowerScale * One

Min2(a, b) == IF a < b THEN a ELSE b

Max2(a, b) == IF a > b THEN a ELSE b

\* hundredths of a cent per kWh
PRICE_PER_HOUR ==
  << 870,  848,  852,  861,  869,  869,
     956, 1158, 1272, 1307, 1565, 1765,
    1624, 1555, 1512, 1664, 1860, 2153,
    2268, 2029, 1709, 1409, 1281, 1163 >>

Price(h) == PRICE_PER_HOUR[h + 1]

(***************************************************************************)
(* Exact arithmetic helpers                                                *)
(***************************************************************************)

\* sign of a/b - c/d for a, c >= 0 and b, d > 0, by continued fractions
RECURSIVE CmpFrac(_, _, _, _)
CmpFrac(a, b, c, d) ==
  LET qa == a \div b
      qc == c \div d
      ra == a % b
      rc == c % d
  IN  IF qa < qc THEN -1
      ELSE IF qa > qc THEN 1
      ELSE IF ra = 0 /\ rc = 0 THEN 0
      ELSE IF ra = 0 THEN -1
      ELSE IF rc = 0 THEN 1
      ELSE 0 - CmpFrac(b, ra, d, rc)

\* the list f[lo], ..., f[hi - 1]
ListOf(f, lo, hi) ==
  IF hi <= lo THEN << >>
  ELSE SubSeq([i \in 1 .. (hi - lo) |-> f[lo + i - 1]], 1, hi - lo)

\* F(v), with v computed once and before F's body: what an assignment to a
\* local variable followed by the statements that read it does.  Sums,
\* maxima and loops over a range are split in halves, which keeps the
\* evaluation shallow; the result is that of the left-to-right loop.
With(v, F(_)) == CHOOSE y \in {F(x) : x \in {v}} : TRUE

\* f[lo] + ... + f[hi]
RECURSIVE SumInt(_, _, _)
SumInt(f, lo, hi) ==
  IF lo > hi THEN 0
  ELSE IF lo = hi THEN f[lo]
  ELSE LET mid == (lo + hi) \div 2
       IN  SumInt(f, lo, mid) + SumInt(f, mid + 1, hi)

WB == 1000 * 1000

WZero == <<0, 0>>

\* c + x * y on two-limb numbers (0 <= lo < WB)
WAddProd(c, x, y) ==
  LET xh == x \div 1000
      xl == x % 1000
      t  == xh * y
      lo == c[2] + (t % 1000) * 1000 + xl * y
  IN  << c[1] + (t \div 1000) + (lo \div WB), lo % WB >>

WAdd(c, d) ==
  LET lo == c[2] + d[2] IN << c[1] + d[1] + (lo \div WB), lo % WB >>

WLeq(c, d) == c[1] < d[1] \/ (c[1] = d[1] /\ c[2] <= d[2])

\* Natural numbers of BigLimbs digits in base BigBase, least significant
\* digit first: the exact values of the products and sums of normalised
\* terms that the grid searches compare.
BigBase == 100 * 100

BigLimbs == 4 + 4

\* the digits of the number whose k-th digit position holds raw[k] (any
\* integer): carries and borrows are passed upwards
RECURSIVE BigCarry(_, _, _)
BigCarry(raw, k, carry) ==
  IF k > BigLimbs THEN << >>
  ELSE With(raw[k] + carry, LAMBDA t :
         <<t % BigBase>> \o BigCarry(raw, k + 1, t \div BigBase))

BigFromInt(n) == BigCarry([k \in 1 .. BigLimbs |-> IF k = 1 THEN n ELSE 0], 1, 0)

BigAdd(a, b) == BigCarry([k \in 1 .. BigLimbs |-> a[k] + b[k]], 1, 0)

\* a - b for a >= b
BigSub(a, b) == BigCarry([k \in 1 .. BigLimbs |-> a[k] - b[k]], 1, 0)

BigMul(a, b) ==
  BigCarry([k \in 1 .. BigLimbs |->
              SumInt([i \in 1 .. k |-> a[i] * b[k + 1 - i]], 1, k)], 1, 0)

\* the two-limb number c
BigFromW(c) ==
  BigCarry([k \in 1 .. BigLimbs |->
              IF k = 1 THEN c[2] ELSE IF k = 2 THEN (c[1] % 100) * 100
              ELSE IF k = 3 THEN c[1] \div 100 ELSE 0], 1, 0)

\* sign of a - b, from digit k downwards
RECURSIVE BigCmpFrom(_, _, _)
BigCmpFrom(a, b, k) ==
  IF k = 0 THEN 0
  ELSE IF a[k] < b[k] THEN -1
  ELSE IF a[k] > b[k] THEN 1
  ELSE BigCmpFrom(a, b, k - 1)

BigCmp(a, b) == BigCmpFrom(a, b, BigLimbs)

(***************************************************************************)
(* database.py                                                             *)
(***************************************************************************)

generate_baseline_base_load ==
  ListOf([h \in Hours |->
     LoadScale * (40 + (IF 7 <= h /\ h <= 9 THEN 25 ELSE 0)
                     + (IF 17 <= h /\ h <= 21 THEN 35 ELSE 0))], 0, NUM_HOURS)

generate_winter_base_load ==
  ListOf([h \in Hours |->
     LoadScale * (55 + (IF 5 <= h /\ h <= 9 THEN 70 ELSE 0)
                     + (IF 16 <= h /\ h <= 22 THEN 90 ELSE 0))], 0, NUM_HOURS)

generate_future_base_load ==
  ListOf([h \in Hours |->
     (generate_baseline_base_load[h + 1] * 19) \div 10
       + LoadScale * ((IF 10 <= h /\ h <= 15 THEN 35 ELSE 0)
                    + (IF 16 <= h /\ h <= 21 THEN 70 ELSE 0))], 0, NUM_HOURS)

\* scaling factors in tenths
get_scenarios ==
  [ Baseline |->
      [name |-> "Baseline", base_load |-> generate_baseline_base_load,
       scaling_factors |-> << >>],
    Winter |->
      [name |-> "Winter weekday", base_load |-> generate_winter_base_load,
       scaling_factors |-> [EV |-> 14, HVAC |-> 18, Sauna |-> 16]],
    Future |->
      [name |-> "2030 future", base_load |-> generate_future_base_load,
       scaling_factors |-> [EV |-> 22, HVAC |-> 19, Battery |-> 19]] ]

ScenarioKeys == {"Baseline", "Winter", "Future"}

\* dict.get(key, 1.0)
FactorGet(sf, key) == IF key \in DOMAIN sf THEN sf[key] ELSE One

(***************************************************************************)
(* The substring test  keyword in a.appliance : a string is atomic here,   *)
(* so the labels in use are tabulated with the keywords they contain.      *)
(***************************************************************************)
LabelKeywords ==
  [ l \in {"Fast chargers (EV)", "EV chargers (EV)", "Bus chargers (EV)",
           "HVAC", "Heat pump", "Battery charging", "Battery HVAC backup",
           "Sauna", "Fridge defrost", "Dishwasher (fixed)", "Cold storage",
           "Appliance"} |->
      CASE l \in {"Fast chargers (EV)", "EV chargers (EV)",
                  "Bus chargers (EV)"}          -> {"EV", "charg"}
        [] l = "HVAC"                           -> {"HVAC"}
        [] l = "Heat pump"                      -> {"Heat"}
        [] l = "Battery charging"               -> {"Battery", "charg"}
        [] l = "Battery HVAC backup"            -> {"Battery", "HVAC"}
        [] l = "Sauna"                          -> {"Sauna"}
        [] OTHER                                -> {} ]

Contains(label, kw) == kw \in LabelKeywords[label]

(***************************************************************************)
(* logic.py : Simulator helpers                                            *)
(***************************************************************************)

\* list(range(lo, hi))
Range(lo, hi) == ListOf([i \in lo .. (hi - 1) |-> i], lo, hi)

\* the wrapped window in ascending hour order
get_window_hours_ascending(start, end) ==
  IF start < end
    THEN Range(start, end)
    ELSE Range(0, end) \o Range(start, NUM_HOURS)

\* logic.py lines 50-56
get_window_hours(start, end) ==
  IF start < end
    THEN Range(start, end)
    ELSE Range(start, NUM_HOURS) \o Range(0, end)

\* Python's  seq[:n]
PyPrefix(s, n) ==
  IF n >= 0 THEN SubSeq(s, 1, Min2(n, Len(s)))
            ELSE SubSeq(s, 1, Max2(Len(s) + n, 0))

Occurrences(hours, h) == Cardinality({i \in DOMAIN hours : hours[i] = h})

\* for h in hours: load[h] += x
AddAt(load, hours, x) ==
  ListOf([h \in Hours |-> load[h + 1] + x * Occurrences(hours, h)],
         0, NUM_HOURS)

\* max / min of list[h] over the hours s[lo..hi] (lo <= hi)
RECURSIVE MaxOver(_, _, _, _)
MaxOver(list, s, lo, hi) ==
  IF lo = hi THEN list[s[lo] + 1]
  ELSE LET mid == (lo + hi) \div 2
       IN  Max2(MaxOver(list, s, lo, mid), MaxOver(list, s, mid + 1, hi))

RECURSIVE MinOver(_, _, _, _)
MinOver(list, s, lo, hi) ==
  IF lo = hi THEN list[s[lo] + 1]
  ELSE LET mid == (lo + hi) \div 2
       IN  Min2(MinOver(list, s, lo, mid), MinOver(list, s, mid + 1, hi))

AllHours == Range(0, NUM_HOURS)

\* max(load) over the 24 hours
Peak(load) == MaxOver(load, AllHours, 1, NUM_HOURS)

(***************************************************************************)
(* logic.py : Simulator._build_before_curve                                *)
(***************************************************************************)

\* variant: a disabled asset is given its naive hours as well
NaiveHoursOfAny(a) ==
  LET window == get_window_hours(a.start_hour, a.end_hour)
  IN  IF Len(window) = 0 THEN << >>
      ELSE PyPrefix(window, Min2(a.duration_h, Len(window)))

\* lines 87-97: the hours one asset gets in the naive schedule
NaiveHours(a) ==
  IF ~a.enabled THEN << >>
  ELSE LET window == get_window_hours(a.start_hour, a.end_hour)
       IN  IF Len(window) = 0 THEN << >>
           ELSE PyPrefix(window, Min2(a.duration_h, Len(window)))

\* lines 99-100 for the assets as[lo..hi], in catalog order
RECURSIVE BeforeLoadLoop(_, _, _, _)
BeforeLoadLoop(as, lo, hi, load) ==
  IF lo > hi THEN load
  ELSE IF lo = hi
    THEN AddAt(load, as[lo].before_hours, as[lo].power_kw * One)
  ELSE With(BeforeLoadLoop(as, lo, (lo + hi) \div 2, load),
            LAMBDA left : BeforeLoadLoop(as, (lo + hi) \div 2 + 1, hi, left))

\* sum of x * PRICE_PER_HOUR[h] over hours[lo..hi]
RECURSIVE CostOfHours(_, _, _, _)
CostOfHours(hours, lo, hi, x) ==
  IF lo > hi THEN WZero
  ELSE IF lo = hi THEN WAddProd(WZero, x, Price(hours[lo]))
  ELSE LET mid == (lo + hi) \div 2
       IN  WAdd(CostOfHours(hours, lo, mid, x),
                CostOfHours(hours, mid + 1, hi, x))

\* lines 104-108 for the assets as[lo..hi]
RECURSIVE CostBeforeLoop(_, _, _)
CostBeforeLoop(as, lo, hi) ==
  IF lo > hi THEN WZero
  ELSE IF lo = hi
    THEN IF ~as[lo].enabled THEN WZero
         ELSE CostOfHours(as[lo].before_hours, 1, Len(as[lo].before_hours),
                          as[lo].power_kw * One)
  ELSE LET mid == (lo + hi) \div 2
       IN  WAdd(CostBeforeLoop(as, lo, mid), CostBeforeLoop(as, mid + 1, hi))

build_before_curve(as, scen) ==
  With(ListOf([i \in DOMAIN as |->
                 [as[i] EXCEPT !.before_hours = NaiveHours(as[i])]],
              1, Len(as) + 1),
       LAMBDA as1 :
         [assets            |-> as1,
          before_load       |-> BeforeLoadLoop(as1, 1, Len(as1), scen.base_load),
          cost_before_cents |-> CostBeforeLoop(as1, 1, Len(as1))])

(***************************************************************************)
(* logic.py : Simulator._build_after_curve                                 *)
(***************************************************************************)

\* lines 153-156; the value is the fraction <<numerator, denominator>>
norm(val, lo, hi) == IF hi > lo THEN <<val - lo, hi - lo>> ELSE <<0, 1>>

\* line 162: w_grid * l_norm + w_price * p_norm, as the two numerators
\* (in tenths) and the two denominators
Score(l_norm, p_norm, w_price) ==
  [g  |-> (One - w_price) * l_norm[1], dl |-> l_norm[2],
   p  |-> w_price * p_norm[1],         dp |-> p_norm[2]]

\* variant: s1 > s2, so that the hours with the highest score are taken
ScoreGreater(s1, s2) ==
  LET dg == s2.g - s1.g
      dq == s2.p - s1.p
  IN  IF dg <= 0 /\ dq <= 0 THEN dg < 0 \/ dq < 0
      ELSE IF dg >= 0 /\ dq >= 0 THEN FALSE
      ELSE IF dg < 0 THEN CmpFrac(0 - dg, s1.dl, dq, s1.dp) > 0
      ELSE CmpFrac(dg, s1.dl, 0 - dq, s1.dp) < 0

\* s1 < s2 for two scores of the same window:
\* (s1.g - s2.g) / dl + (s1.p - s2.p) / dp < 0
ScoreLess(s1, s2) ==
  LET dg == s1.g - s2.g
      dq == s1.p - s2.p
  IN  IF dg <= 0 /\ dq <= 0 THEN dg < 0 \/ dq < 0
      ELSE IF dg >= 0 /\ dq >= 0 THEN FALSE
      ELSE IF dg < 0 THEN CmpFrac(0 - dg, s1.dl, dq, s1.dp) > 0
      ELSE CmpFrac(dg, s1.dl, 0 - dq, s1.dp) < 0

\* lines 148-162: the score of every hour of the window, as a list over the
\* 24 hours (the entries outside the window are never read)
Scores(window, load, w_price) ==
  With(<<MinOver(load, window, 1, Len(window)),
         MaxOver(load, window, 1, Len(window)),
         MinOver(PRICE_PER_HOUR, window, 1, Len(window)),
         MaxOver(PRICE_PER_HOUR, window, 1, Len(window))>>,
       LAMBDA m :  \* m = <<Lmin, Lmax, Pmin, Pmax>>
         ListOf([h \in Hours |->
                   IF \E i \in DOMAIN window : window[i] = h
                     THEN Score(norm(load[h + 1], m[1], m[2]),
                                norm(Price(h), m[3], m[4]), w_price)
                     ELSE Score(<<0, 1>>, <<0, 1>>, w_price)],
                0, NUM_HOURS))

\* variant: the position of the last element with the least score
RECURSIVE ArgMinLast(_, _, _, _)
ArgMinLast(available, scores, lo, hi) ==
  IF lo = hi THEN lo
  ELSE With(<<ArgMinLast(available, scores, lo, (lo + hi) \div 2),
              ArgMinLast(available, scores, (lo + hi) \div 2 + 1, hi)>>,
            LAMBDA lr :
              IF ScoreLess(scores[available[lr[1]] + 1],
                           scores[available[lr[2]] + 1])
                THEN lr[1] ELSE lr[2])

\* min(available, key=scores) over available[lo..hi]: the position of the
\* first element with the least score
RECURSIVE ArgMin(_, _, _, _)
ArgMin(available, scores, lo, hi) ==
  IF lo = hi THEN lo
  ELSE With(<<ArgMin(available, scores, lo, (lo + hi) \div 2),
              ArgMin(available, scores, (lo + hi) \div 2 + 1, hi)>>,
            LAMBDA lr :
              IF ScoreLess(scores[available[lr[2]] + 1],
                           scores[available[lr[1]] + 1])
                THEN lr[2] ELSE lr[1])

\* list.remove(x): drops the first occurrence
ListRemove(s, x) ==
  LET k == CHOOSE i \in DOMAIN s : s[i] = x /\ \A j \in 1 .. (i - 1) : s[j] # x
  IN  SubSeq(s, 1, k - 1) \o SubSeq(s, k + 1, Len(s))

\* lines 167-173, rounds lo..hi of  for _ in range(duration);
\* st = [available, chosen]
RECURSIVE PickRounds(_, _, _, _)
PickRounds(st, scores, lo, hi) ==
  IF lo > hi \/ Len(st.available) = 0 THEN st
  ELSE IF lo = hi
    THEN With(st.available[ArgMin(st.available, scores, 1, Len(st.available))],
              LAMBDA best : [available |-> ListRemove(st.available, best),
                             chosen    |-> Append(st.chosen, best)])
  ELSE With(PickRounds(st, scores, lo, (lo + hi) \div 2),
            LAMBDA left : PickRounds(left, scores, (lo + hi) \div 2 + 1, hi))

\* variant: one round too few
PickVariableShort(window, scores, duration) ==
  PickRounds([available |-> window, chosen |-> << >>], scores, 1,
             duration - 1).chosen

\* lines 164-173: the hours chosen, in the order chosen
PickVariable(window, scores, duration) ==
  PickRounds([available |-> window, chosen |-> << >>], scores, 1,
             duration).chosen

\* line 182: sum(scores[h] for h in block), block = window[i:i+duration]
BlockScore(window, scores, i, duration) ==
  [g  |-> SumInt([j \in 1 .. duration |-> scores[window[i + j] + 1].g],
                 1, duration),
   p  |-> SumInt([j \in 1 .. duration |-> scores[window[i + j] + 1].p],
                 1, duration),
   dl |-> scores[window[i + 1] + 1].dl,
   dp |-> scores[window[i + 1] + 1].dp]

\* lines 180-185 for i in lo..hi: the first block with the least score (a
\* later block replaces the best one only if its score is strictly less)
RECURSIVE BestBlock(_, _, _, _, _)
BestBlock(window, scores, duration, lo, hi) ==
  IF lo = hi
    THEN [i |-> lo, s |-> BlockScore(window, scores, lo, duration)]
  ELSE With(<<BestBlock(window, scores, duration, lo, (lo + hi) \div 2),
              BestBlock(window, scores, duration, (lo + hi) \div 2 + 1, hi)>>,
            LAMBDA lr : IF ScoreLess(lr[2].s, lr[1].s) THEN lr[2] ELSE lr[1])

\* variant: the block is left at the head of the window
PickBlockFirst(window, scores, duration0) ==
  SubSeq(window, 1, Min2(duration0, Len(window)))

\* lines 176-187 (a block of no hours is falsy, chosen stays empty)
PickBlock(window, scores, duration0) ==
  IF Min2(duration0, Len(window)) <= 0 THEN << >>
  ELSE With(BestBlock(window, scores, Min2(duration0, Len(window)), 0,
                      Len(window) - Min2(duration0, Len(window))).i,
            LAMBDA b : SubSeq(window, b + 1, b + Min2(duration0, Len(window))))

\* variant: the full power takes part whatever p is
ParticipatePowerFull(power_full, p_flex) == power_full * One

\* variant: half of the participating power stays at the naive hours
ParticipatePowerHalf(power_full, p_flex) == (power_full * p_flex) \div 2

\* line 133: participate_power = power_full * p_flex
ParticipatePower(power_full, p_flex) == power_full * p_flex

\* line 134: remain_power = power_full * (1.0 - p_flex)
RemainPower(power_full, p_flex) == power_full * (One - p_flex)

\* lines 129-199 for one asset; st = [load, cost], the result adds hours
PlaceAsset(st, a, p_flex, w_price) ==
  LET power_full        == a.power_kw
      participate_power == ParticipatePower(power_full, p_flex)
      remain_power      == RemainPower(power_full, p_flex)
  IN  IF power_full <= 0 \/ Len(a.before_hours) = 0
        THEN [load |-> st.load, cost |-> st.cost, hours |-> << >>]
      ELSE
      With(get_window_hours(a.start_hour, a.end_hour), LAMBDA window :
        IF Len(window) = 0
          THEN [load |-> st.load, cost |-> st.cost, hours |-> a.before_hours]
        ELSE
        With(AddAt(st.load, a.before_hours, 0 - participate_power),
             LAMBDA removed :
        With(Scores(window, removed, w_price), LAMBDA scores :
        With(IF a.variable
               THEN PickVariable(window, scores,
                                 Min2(a.duration_h, Len(window)))
               ELSE PickBlock(window, scores,
                              Min2(a.duration_h, Len(window))),
             LAMBDA chosen :
               [load  |-> AddAt(removed, chosen, participate_power),
                cost  |-> WAdd(WAdd(st.cost,
                             CostOfHours(a.before_hours, 1,
                                         Len(a.before_hours), remain_power)),
                             CostOfHours(chosen, 1, Len(chosen),
                                         participate_power)),
                hours |-> chosen]))))

\* lines 124-125: indices of the enabled assets, by descending power, the
\* sort being stable
SortedEnabled(as) ==
  LET En      == {i \in DOMAIN as : as[i].enabled}
      Rank(i) == Cardinality({j \in En :
                     \/ as[j].power_kw > as[i].power_kw
                     \/ as[j].power_kw = as[i].power_kw /\ j < i})
  IN  ListOf([r \in 1 .. Cardinality(En) |->
                CHOOSE i \in En : Rank(i) = r - 1], 1, Cardinality(En) + 1)

\* line 128: for a in enabled_assets, here for order[lo..hi];
\* st = [assets, load, cost]
RECURSIVE AfterLoop(_, _, _, _, _, _)
AfterLoop(st, order, lo, hi, p_flex, w_price) ==
  IF lo > hi THEN st
  ELSE IF lo = hi
    THEN With(PlaceAsset(st, st.assets[order[lo]], p_flex, w_price),
              LAMBDA r :
                [assets |-> [st.assets EXCEPT ![order[lo]].after_hours = r.hours],
                 load |-> r.load, cost |-> r.cost])
  ELSE With(AfterLoop(st, order, lo, (lo + hi) \div 2, p_flex, w_price),
            LAMBDA left :
              AfterLoop(left, order, (lo + hi) \div 2 + 1, hi, p_flex, w_price))

\* variant: the accumulator is not reset
InitialCostAfterKept(old) == old

\* line 113
InitialCostAfter(old) == WZero

\* variant: the catalog itself is sorted, not a list of its enabled assets
build_after_curve_in_place(as, before_load, p_flex, w_price, old_cost) ==
  With(ListOf([i \in DOMAIN as |-> [as[i] EXCEPT !.after_hours = << >>]],
              1, Len(as) + 1),
       LAMBDA cleared :
  With(SortedEnabled(cleared), LAMBDA order :
  With(AfterLoop([assets |-> cleared, load |-> before_load,
                  cost |-> InitialCostAfter(old_cost)],
                 order, 1, Len(order), p_flex, w_price),
       LAMBDA r :
         [assets |-> ListOf([k \in DOMAIN order |-> r.assets[order[k]]],
                            1, Len(order) + 1),
          after_load |-> r.load,
          cost_after_cents |-> r.cost])))

build_after_curve(as, before_load, p_flex, w_price, old_cost) ==
  With(ListOf([i \in DOMAIN as |-> [as[i] EXCEPT !.after_hours = << >>]],
              1, Len(as) + 1),
       LAMBDA cleared :
  With(SortedEnabled(cleared), LAMBDA order :
  With(AfterLoop([assets |-> cleared, load |-> before_load,
                  cost |-> InitialCostAfter(old_cost)],
                 order, 1, Len(order), p_flex, w_price),
       LAMBDA r :
         [assets |-> r.assets, after_load |-> r.load,
          cost_after_cents |-> r.cost])))

\* Simulator.recalculate: the new values of the derived state
recalculate(as, scen, p_flex, w_price, old_cost) ==
  With(build_before_curve(as, scen), LAMBDA b :
  With(build_after_curve(b.assets, b.before_load, p_flex, w_price, old_cost),
       LAMBDA a :
         [assets            |-> a.assets,
          before_load       |-> b.before_load,
          after_load        |-> a.after_load,
          cost_before_cents |-> b.cost_before_cents,
          cost_after_cents  |-> a.cost_after_cents]))

\* Simulator.apply_scenario lines 61-72: the scaled power of one asset
ScaledPower(base, appliance, sf) ==
  LET f1 == IF Contains(appliance, "EV") THEN FactorGet(sf, "EV") ELSE One
      f2 == IF Contains(appliance, "HVAC") \/ Contains(appliance, "Heat")
              THEN FactorGet(sf, "HVAC") ELSE One
      f3 == IF Contains(appliance, "Battery")
              THEN FactorGet(sf, "Battery") ELSE One
      f4 == IF Contains(appliance, "Sauna") THEN FactorGet(sf, "Sauna") ELSE One
  IN  (base * (f1 * f2 * f3 * f4)) \div (One * One * One * One)

\* database.py Asset(...)
Asset(appliance, power_kw, duration_h, start_hour, end_hour, variable) ==
  [appliance |-> appliance, power_kw |-> power_kw, duration_h |-> duration_h,
   start_hour |-> start_hour, end_hour |-> end_hour, variable |-> variable,
   enabled |-> TRUE, before_hours |-> << >>, after_hours |-> << >>]

\* kW to power units
KW(x) == x * PowerScale

\* database.py initial_assets (54 assets)
initial_assets ==
  << Asset("Fast chargers (EV)", KW(80), 4, 17, 24, TRUE),
     Asset("HVAC", KW(30), 3, 14, 20, TRUE),
     Asset("Fridge defrost", KW(20), 4, 0, 24, FALSE),
     Asset("EV chargers (EV)", KW(40), 6, 18, 24, TRUE) >>
  \o [k \in 1 .. 10 |-> LET i == k - 1 IN
        Asset("EV chargers (EV)", KW(6) + (i % 4) * (KW(3) \div 2),
              3 + (i % 3), 18 + (i % 3), 24, TRUE)]
  \o [k \in 1 .. 10 |-> LET i == k - 1 IN
        Asset("Dishwasher (fixed)", (KW(3) \div 2) + (i % 2) * (KW(1) \div 2),
              2, 20 + (i % 3), 24, FALSE)]
  \o [k \in 1 .. 10 |-> LET i == k - 1 IN
        Asset("HVAC", KW(15) + i * (KW(3) \div 2), 6 + (i % 3), 7, 19, TRUE)]
  \o [k \in 1 .. 8 |-> LET i == k - 1 IN
        Asset("Cold storage", KW(8) + (i % 3) * KW(2), 3,
              (i % 4) * 6, (i % 4) * 6 + 6, TRUE)]
  \o [k \in 1 .. 6 |-> LET i == k - 1 IN
        Asset("Bus chargers (EV)", KW(30) + i * KW(5), 4 + (i % 3), 22, 6, TRUE)]
  \o [k \in 1 .. 6 |-> LET i == k - 1 IN
        Asset("Battery charging", KW(10) + i * KW(2), 3 + (i % 2), 0, 7, TRUE)]

(***************************************************************************)
(* ui_tk.py, SmartLDS ver1.0 : the monolithic engine.  An asset is a dict  *)
(* with the keys appliance, power_kW, duration_h, start_hour, end_hour,    *)
(* variable, enabled, before_hours, after_hours, base_power_kW.            *)
(***************************************************************************)

clamp(val, lo, hi) == Max2(lo, Min2(hi, val))

\* ui_tk.py get_window_hours, lines 1118-1132
SmartLDS_get_window_hours(start_hour, end_hour) ==
  IF start_hour < end_hour
    THEN Range(start_hour, end_hour)
    ELSE Range(start_hour, NUM_HOURS) \o Range(0, end_hour)

\* lines 1167-1196: the hours one asset gets in the naive schedule
hours_used(asset) ==
  LET sh == clamp(asset.start_hour, 0, NUM_HOURS - 1)
      eh == clamp(asset.end_hour, 0, NUM_HOURS)
  IN  IF ~asset.enabled THEN << >>
      ELSE IF sh = eh THEN << >>
      ELSE With(SmartLDS_get_window_hours(sh, eh), LAMBDA window_hours :
             IF Len(window_hours) = 0 THEN << >>
             ELSE IF asset.power_kW <= 0 THEN << >>
             ELSE PyPrefix(window_hours,
                           clamp(asset.duration_h, 1, Len(window_hours))))

\* lines 1192-1194 for the assets as[lo..hi], in catalog order
RECURSIVE SmartLDS_BeforeLoop(_, _, _, _)
SmartLDS_BeforeLoop(as, lo, hi, load) ==
  IF lo > hi THEN load
  ELSE IF lo = hi
    THEN AddAt(load, as[lo].before_hours, as[lo].power_kW * One)
  ELSE With(SmartLDS_BeforeLoop(as, lo, (lo + hi) \div 2, load),
            LAMBDA left :
              SmartLDS_BeforeLoop(as, (lo + hi) \div 2 + 1, hi, left))

\* lines 1199-1205 for the assets as[lo..hi]
RECURSIVE SmartLDS_CostBefore(_, _, _)
SmartLDS_CostBefore(as, lo, hi) ==
  IF lo > hi THEN WZero
  ELSE IF lo = hi
    THEN IF ~as[lo].enabled THEN WZero
         ELSE CostOfHours(as[lo].before_hours, 1, Len(as[lo].before_hours),
                          as[lo].power_kW * One)
  ELSE LET mid == (lo + hi) \div 2
       IN  WAdd(SmartLDS_CostBefore(as, lo, mid),
                SmartLDS_CostBefore(as, mid + 1, hi))

\* lines 1303-1316 for the assets as[lo..hi]
RECURSIVE SmartLDS_CostAfter(_, _, _, _)
SmartLDS_CostAfter(as, lo, hi, p) ==
  IF lo > hi THEN WZero
  ELSE IF lo = hi
    THEN IF ~as[lo].enabled THEN WZero
         ELSE WAdd(CostOfHours(as[lo].before_hours, 1,
                               Len(as[lo].before_hours),
                               as[lo].power_kW * (One - p)),
                   CostOfHours(as[lo].after_hours, 1,
                               Len(as[lo].after_hours), as[lo].power_kW * p))
  ELSE LET mid == (lo + hi) \div 2
       IN  WAdd(SmartLDS_CostAfter(as, lo, mid, p),
                SmartLDS_CostAfter(as, mid + 1, hi, p))

\* variant: the enabled assets are placed in catalog order
SmartLDS_CatalogOrder(as) ==
  LET En      == {i \in DOMAIN as : as[i].enabled}
      Rank(i) == Cardinality({j \in En : j < i})
  IN  ListOf([r \in 1 .. Cardinality(En) |->
                CHOOSE i \in En : Rank(i) = r - 1], 1, Cardinality(En) + 1)

\* lines 1214-1217: indices of the enabled assets, by descending power, the
\* sort being stable
SmartLDS_Sorted(as) ==
  LET En      == {i \in DOMAIN as : as[i].enabled}
      Rank(i) == Cardinality({j \in En :
                     \/ as[j].power_kW > as[i].power_kW
                     \/ as[j].power_kW = as[i].power_kW /\ j < i})
  IN  ListOf([r \in 1 .. Cardinality(En) |->
                CHOOSE i \in En : Rank(i) = r - 1], 1, Cardinality(En) + 1)

\* lines 1218-1301 for one asset: the new after_load and the asset's
\* after_hours
SmartLDS_Place(load, asset, p, price_weight) ==
  LET power_full          == asset.power_kW
      participating_power == power_full * p
      sh                  == clamp(asset.start_hour, 0, NUM_HOURS - 1)
      eh                  == clamp(asset.end_hour, 0, NUM_HOURS)
  IN  IF power_full <= 0
        THEN [load |-> load, hours |-> << >>]
      ELSE IF p <= 0 \/ Len(asset.before_hours) = 0
        THEN [load |-> load, hours |-> asset.before_hours]
      ELSE
      With(SmartLDS_get_window_hours(sh, eh), LAMBDA window_hours :
        IF sh = eh \/ Len(window_hours) = 0
          THEN [load |-> load, hours |-> asset.before_hours]
        ELSE
        With(AddAt(load, asset.before_hours, 0 - participating_power),
             LAMBDA removed :
        With(Scores(window_hours, removed, price_weight), LAMBDA hour_score :
        With(IF asset.variable
               THEN PickVariable(window_hours, hour_score,
                                 clamp(asset.duration_h, 1, Len(window_hours)))
               ELSE PickBlock(window_hours, hour_score,
                              clamp(asset.duration_h, 1, Len(window_hours))),
             LAMBDA chosen_hours :
               [load  |-> AddAt(removed, chosen_hours, participating_power),
                hours |-> chosen_hours]))))

\* line 1214: for asset in sorted(...), here for order[lo..hi];
\* st = [assets, load]
RECURSIVE SmartLDS_AfterLoop(_, _, _, _, _, _)
SmartLDS_AfterLoop(st, order, lo, hi, p, price_weight) ==
  IF lo > hi THEN st
  ELSE IF lo = hi
    THEN With(SmartLDS_Place(st.load, st.assets[order[lo]], p, price_weight),
              LAMBDA r :
                [assets |-> [st.assets EXCEPT ![order[lo]].after_hours = r.hours],
                 load |-> r.load])
  ELSE With(SmartLDS_AfterLoop(st, order, lo, (lo + hi) \div 2, p, price_weight),
            LAMBDA left :
              SmartLDS_AfterLoop(left, order, (lo + hi) \div 2 + 1, hi, p,
                                 price_weight))

\* recalculate_schedules, lines 1135-1316: the new values of ASSETS and of
\* the four globals; participation and price_weight in tenths
recalculate_schedules(as, base_load, participation, price_weight) ==
  With(ListOf([i \in DOMAIN as |->
                 [as[i] EXCEPT !.before_hours = << >>, !.after_hours = << >>]],
              1, Len(as) + 1),
       LAMBDA reset :
  With(ListOf([i \in DOMAIN reset |->
                 [reset[i] EXCEPT !.before_hours = hours_used(reset[i])]],
              1, Len(reset) + 1),
       LAMBDA as1 :
  With(SmartLDS_BeforeLoop(as1, 1, Len(as1), base_load), LAMBDA before :
  With(SmartLDS_Sorted(as1), LAMBDA order :
  With(SmartLDS_AfterLoop([assets |-> as1, load |-> before],
                          order, 1, Len(order), participation, price_weight),
       LAMBDA r :
         [ASSETS           |-> r.assets,
          before_load      |-> before,
          after_load       |-> r.load,
          cost_before_flex |-> SmartLDS_CostBefore(as1, 1, Len(as1)),
          cost_after_flex  |-> SmartLDS_CostAfter(r.assets, 1, Len(r.assets),
                                                  participation)])))))

\* ui_tk.py lines 662-730: the base-load curves of SmartLDS
generate_base_load ==
  ListOf([h \in Hours |->
     LoadScale * (40 + (IF 7 <= h /\ h <= 9 THEN 25 ELSE 0)
                     + (IF 17 <= h /\ h <= 21 THEN 35 ELSE 0))], 0, NUM_HOURS)

generate_winter_load ==
  ListOf([h \in Hours |->
     LoadScale * (55 + (IF 5 <= h /\ h <= 9 THEN 70 ELSE 0)
                     + (IF 16 <= h /\ h <= 22 THEN 90 ELSE 0))], 0, NUM_HOURS)

generate_future2030_load(baseline) ==
  ListOf([h \in Hours |->
     (baseline[h + 1] * 19) \div 10
       + LoadScale * ((IF 10 <= h /\ h <= 15 THEN 35 ELSE 0)
                    + (IF 16 <= h /\ h <= 21 THEN 70 ELSE 0))], 0, NUM_HOURS)

BASE_LOAD_BASELINE == generate_base_load

\* ui_tk.py apply_scenario, lines 1331-1359: the base load of a scenario
\* (an unknown name leaves BASE_LOAD as it is)
SmartLDS_base_load(name, old) ==
  CASE name = "Baseline" -> BASE_LOAD_BASELINE
    [] name = "Winter"   -> generate_winter_load
    [] name = "Future"   -> generate_future2030_load(BASE_LOAD_BASELINE)
    [] OTHER             -> old

\* ui_tk.py apply_scenario, lines 1331-1359: the power of one asset
SmartLDS_power(name, a) ==
  LET base == a.base_power_kW
      l    == a.appliance
  IN  CASE name = "Baseline" -> base
        [] name = "Winter" ->
             IF Contains(l, "Heat pumps") \/ Contains(l, "HVAC")
               THEN (base * 18) \div One
             ELSE IF Contains(l, "EV") \/ Contains(l, "charg")
               THEN (base * 14) \div One
             ELSE IF Contains(l, "Sauna")
               THEN (base * 16) \div One
             ELSE (base * 12) \div One
        [] name = "Future" ->
             IF Contains(l, "EV") \/ Contains(l, "charg")
               THEN (base * 22) \div One
             ELSE IF Contains(l, "Heat pumps") \/ Contains(l, "Battery")
               THEN (base * 19) \div One
             ELSE (base * 14) \div One
        [] OTHER -> a.power_kW

\* ui_tk.py lines 729-754, in 1/CO2Scale tCO2 per MWh (0.045 = 4500)
CO2Scale == 100 * 1000

CO2_PER_HOUR_BASELINE ==
  << 4500,  4200,  4000, 3800, 3500, 3200,
     3000,  3500,  5000, 6500, 7000, 7500,
     8000,  8500,  9000, 9500, 10000, 11000,
     10500, 9500,  8500, 7500, 6000, 5000 >>

\* ui_tk.py generate_winter_co2, lines 757-767
SmartLDS_generate_winter_co2 ==
  ListOf([h \in Hours |->
     (CO2_PER_HOUR_BASELINE[h + 1]
        * (IF 17 <= h /\ h <= 21 THEN 145 ELSE 125)) \div 100], 0, NUM_HOURS)

\* ui_tk.py generate_future2030_co2, lines 770-780
SmartLDS_generate_future2030_co2 ==
  ListOf([h \in Hours |->
     (CO2_PER_HOUR_BASELINE[h + 1]
        * (IF 10 <= h /\ h <= 16 THEN 45 ELSE 65)) \div 100], 0, NUM_HOURS)

\* ui_tk.py apply_scenario, lines 1332, 1338, 1352: the CO2 profile of a
\* scenario (an unknown name leaves CO2_PER_HOUR as it is)
SmartLDS_co2(name, old) ==
  CASE name = "Baseline" -> CO2_PER_HOUR_BASELINE
    [] name = "Winter"   -> SmartLDS_generate_winter_co2
    [] name = "Future"   -> SmartLDS_generate_future2030_co2
    [] OTHER             -> old


(***************************************************************************)
(* State                                                                   *)
(***************************************************************************)
VARIABLES
  \* logic.py : the attributes of the Simulator held by FlexiCityApp
  assets,             \* Simulator.assets
  base_power,         \* Simulator.base_power: dict index -> float, as a list
  current_scenario,   \* key of Simulator.current_scenario in get_scenarios
  flex_participation, \* tenths
  price_weight,       \* tenths
  before_load,
  after_load,
  cost_before_cents,
  cost_after_cents,
  deletes,            \* number of _on_delete_asset calls since Init
  \* ui_tk.py lines 642ff : the module globals of SmartLDS
  ASSETS,
  BASE_LOAD,
  flex_var,           \* slider position 0..100
  priority_var,       \* slider position 0..100
  g_before_load,      \* global before_load
  g_after_load,       \* global after_load
  cost_before_flex,
  cost_after_flex,
  editing_index,      \* 0 stands for None, i + 1 for list index i
  var_enabled,        \* the form's "enabled" checkbox
  CO2_PER_HOUR,       \* global CO2 profile of the current scenario
  results,            \* the last grid search and what it saw, in scan order
  showinfo,           \* the last messagebox.showinfo of a grid search
  \* both engines
  last_call           \* the last apply_scenario call since Init and its end

sim_vars == <<assets, base_power, current_scenario, flex_participation,
              price_weight, before_load, after_load, cost_before_cents,
              cost_after_cents>>

app_vars == <<assets, base_power, current_scenario, flex_participation,
              price_weight, before_load, after_load, cost_before_cents,
              cost_after_cents, deletes>>

lds_vars == <<ASSETS, BASE_LOAD, flex_var, priority_var, g_before_load,
              g_after_load, cost_before_flex, cost_after_flex, editing_index,
              var_enabled, CO2_PER_HOUR, results, showinfo>>

\* what only the grid searches write
search_vars == <<results, showinfo>>

vars == <<assets, base_power, current_scenario, flex_participation,
          price_weight, before_load, after_load, cost_before_cents,
          cost_after_cents, deletes,
          ASSETS, BASE_LOAD, flex_var, priority_var, g_before_load,
          g_after_load, cost_before_flex, cost_after_flex, editing_index,
          var_enabled, CO2_PER_HOUR, results, showinfo, last_call>>

\* a call of apply_scenario(name) and the exception it ended with
Call(engine, name, raised) ==
  [engine |-> engine, name |-> name, raised |-> raised]

NoCall == Call("none", "none", "none")

(***************************************************************************)
(* Bounds and inputs                                                       *)
(***************************************************************************)
MaxAssets == 2

MaxDeletes == 1

\* positions of the two sliders (tenths)
FlexInputs == {0, 10}

PriceWeightInputs == {0, 10}

\* what the user types in the add / edit form
Form(appliance, power_kw, duration_h, start, end, variable) ==
  [appliance |-> appliance, power_kw |-> power_kw, duration_h |-> duration_h,
   start |-> start, end |-> end, variable |-> variable]

FormInputs ==
  { Form("EV chargers (EV)",   KW(10), 2, 22, 6,  TRUE),
    Form("Dishwasher (fixed)", KW(10), 3, 14, 24, FALSE),
    Form("EV chargers (EV)",   KW(10), 2, 5,  5,  FALSE),
    Form("EV chargers (EV)",   KW(10), 0, 22, 6,  TRUE),
    Form("Dishwasher (fixed)", KW(10), 9, 22, 6,  FALSE) }

(***************************************************************************)
(* logic.py : Simulator public API                                         *)
(***************************************************************************)

\* self.recalculate() with the inputs as, sc, p, w: the derived state
Recalculated(as, sc, p, w) ==
  \E r \in {recalculate(as, get_scenarios[sc], p, w, cost_after_cents)} :
      /\ assets' = r.assets
      /\ before_load' = r.before_load
      /\ after_load' = r.after_load
      /\ cost_before_cents' = r.cost_before_cents
      /\ cost_after_cents' = r.cost_after_cents

\* Simulator.__init__ with the catalog as
Constructed(as) ==
  \E r \in {recalculate(as, get_scenarios["Baseline"], One, One \div 2,
                         WZero)} :
      /\ assets = r.assets
      /\ base_power = ListOf([i \in DOMAIN as |-> as[i].power_kw],
                             1, Len(as) + 1)
      /\ current_scenario = "Baseline"
      /\ flex_participation = One
      /\ price_weight = One \div 2
      /\ before_load = r.before_load
      /\ after_load = r.after_load
      /\ cost_before_cents = r.cost_before_cents
      /\ cost_after_cents = r.cost_after_cents
      /\ last_call = NoCall

\* variant: scaling from the current power
NewPowerFromCurrent(a, base, sf) == ScaledPower(a.power_kw, a.appliance, sf)

\* line 72: a.power_kw = base * factor
NewPower(a, base, sf) == ScaledPower(base, a.appliance, sf)

apply_scenario(name) ==
  IF name \notin DOMAIN get_scenarios
    THEN \* self.scenarios[name] raises before anything is assigned
         /\ last_call' = Call("Simulator", name, "KeyError")
         /\ UNCHANGED sim_vars
    ELSE LET sf == get_scenarios[name].scaling_factors
             as == ListOf([i \in DOMAIN assets |->
                             [assets[i] EXCEPT
                                !.power_kw = NewPower(assets[i], base_power[i], sf)]],
                          1, Len(assets) + 1)
         IN  /\ current_scenario' = name
             /\ Recalculated(as, name, flex_participation, price_weight)
             /\ last_call' = Call("Simulator", name, "none")
             /\ UNCHANGED <<base_power, flex_participation, price_weight>>

set_flex_participation(pct) ==
  /\ flex_participation' = Max2(0, Min2(One, pct))
  /\ Recalculated(assets, current_scenario, flex_participation', price_weight)
  /\ UNCHANGED <<base_power, current_scenario, price_weight>>

\* variant: the setter stores the weight and does not recompute
set_price_weight_only(pct) ==
  /\ price_weight' = Max2(0, Min2(One, pct))
  /\ UNCHANGED <<assets, before_load, after_load, cost_before_cents,
                 cost_after_cents>>
  /\ UNCHANGED <<base_power, current_scenario, flex_participation>>

set_price_weight(pct) ==
  /\ price_weight' = Max2(0, Min2(One, pct))
  /\ Recalculated(assets, current_scenario, flex_participation, price_weight')
  /\ UNCHANGED <<base_power, current_scenario, flex_participation>>

(***************************************************************************)
(* ui_tk.py : FlexiCityApp callbacks                                       *)
(***************************************************************************)

\* _window_hours, lines 386-390
window_hours(start, end) ==
  IF start < end
    THEN Range(start, end)
    ELSE Range(start, NUM_HOURS) \o Range(0, end)

\* _read_form_asset, lines 370-379: TRUE when no ValueError is raised
read_form_asset(f) ==
  /\ 0 <= f.start /\ f.start < 24
  /\ 1 <= f.end /\ f.end <= 24
  /\ Len(window_hours(f.start, f.end)) # 0
  /\ f.duration_h >= 1
  /\ f.duration_h <= Len(window_hours(f.start, f.end))

OnScenarioChange(name) ==
  /\ apply_scenario(name)
  /\ UNCHANGED <<deletes, lds_vars>>

OnFlexChange(v) ==
  /\ set_flex_participation(v)
  /\ UNCHANGED <<deletes, last_call, lds_vars>>

OnPriceWeightChange(v) ==
  /\ set_price_weight(v)
  /\ UNCHANGED <<deletes, last_call, lds_vars>>

OnToggleAsset(idx) ==
  /\ idx \in DOMAIN assets
  /\ Recalculated([assets EXCEPT ![idx].enabled = ~assets[idx].enabled],
                  current_scenario, flex_participation, price_weight)
  /\ UNCHANGED <<base_power, current_scenario, flex_participation,
                 price_weight, deletes, last_call, lds_vars>>

\* lines 352-357
OnDeleteAsset(idx) ==
  /\ idx \in DOMAIN assets
  /\ deletes < MaxDeletes
  /\ LET as == SubSeq(assets, 1, idx - 1) \o SubSeq(assets, idx + 1, Len(assets))
     IN  /\ base_power' = ListOf([i \in DOMAIN as |-> as[i].power_kw],
                                 1, Len(as) + 1)
         /\ Recalculated(as, current_scenario, flex_participation, price_weight)
  /\ deletes' = deletes + 1
  /\ UNCHANGED <<current_scenario, flex_participation, price_weight,
                 last_call, lds_vars>>

OnAddAsset(f) ==
  /\ Len(assets) < MaxAssets
  /\ IF read_form_asset(f)
       THEN /\ Recalculated(
                 Append(assets, Asset(f.appliance, f.power_kw, f.duration_h,
                                      f.start, f.end, f.variable)),
                 current_scenario, flex_participation, price_weight)
            /\ base_power' = Append(base_power, f.power_kw)
       ELSE UNCHANGED <<assets, base_power, before_load, after_load,
                       cost_before_cents, cost_after_cents>>
  /\ UNCHANGED <<current_scenario, flex_participation, price_weight, deletes, last_call, lds_vars>>

OnApplyEditToSelected(idx, f) ==
  /\ idx \in DOMAIN assets
  /\ IF read_form_asset(f)
       THEN /\ Recalculated(
                 [assets EXCEPT ![idx] =
                    [@ EXCEPT !.appliance = f.appliance,
                              !.power_kw = f.power_kw,
                              !.duration_h = f.duration_h,
                              !.start_hour = f.start,
                              !.end_hour = f.end,
                              !.variable = f.variable]],
                 current_scenario, flex_participation, price_weight)
            /\ base_power' = [base_power EXCEPT ![idx] = f.power_kw]
       ELSE UNCHANGED <<assets, base_power, before_load, after_load,
                       cost_before_cents, cost_after_cents>>
  /\ UNCHANGED <<current_scenario, flex_participation, price_weight, deletes, last_call, lds_vars>>

\* a direct call of the public method Simulator.recalculate
Recalculate ==
  /\ Recalculated(assets, current_scenario, flex_participation, price_weight)
  /\ UNCHANGED <<base_power, current_scenario, flex_participation,
                 price_weight, deletes, last_call, lds_vars>>

(***************************************************************************)
(* ui_tk.py lines 642ff : SmartLDS handlers                                *)
(***************************************************************************)

\* slider positions of SmartLDS (percent)
SliderInputs == {0, 100}

\* the form's "enabled" checkbox
EnabledInputs == {TRUE, FALSE}

\* no grid search has run yet
NoSearch == [search |-> "none", points |-> << >>]

\* no grid search has shown a dialog yet
NoDialog == [title |-> "none"]

\* recalculate_schedules() with the globals as, bl, flex, prio
Rescheduled(as, bl, flex, prio) ==
  \E r \in {recalculate_schedules(as, bl, flex \div One, prio \div One)} :
      /\ ASSETS' = r.ASSETS
      /\ g_before_load' = r.before_load
      /\ g_after_load' = r.after_load
      /\ cost_before_flex' = r.cost_before_flex
      /\ cost_after_flex' = r.cost_after_flex

\* the module's top-level code, lines 1103-1111 and 2380, with the catalog as
Started(as) ==
  \E r \in {recalculate_schedules(
              ListOf([i \in DOMAIN as |->
                        [as[i] EXCEPT !.power_kW = SmartLDS_power("Baseline", as[i])]],
                     1, Len(as) + 1),
              BASE_LOAD_BASELINE, One, One \div 2)} :
      /\ ASSETS = r.ASSETS
      /\ BASE_LOAD = BASE_LOAD_BASELINE
      /\ CO2_PER_HOUR = CO2_PER_HOUR_BASELINE
      /\ results = NoSearch
      /\ showinfo = NoDialog
      /\ flex_var = 100
      /\ priority_var = 50
      /\ g_before_load = r.before_load
      /\ g_after_load = r.after_load
      /\ cost_before_flex = r.cost_before_flex
      /\ cost_after_flex = r.cost_after_flex
      /\ editing_index = 0
      /\ var_enabled = TRUE

\* read_form_values, lines 1567-1572: TRUE when no ValueError is raised
read_form_values(f) ==
  /\ 0 <= f.start /\ f.start < NUM_HOURS
  /\ 0 <= f.end /\ f.end <= NUM_HOURS
  /\ f.start # f.end

\* read_form_values, lines 1574-1586: the dict it returns
form_asset(f, enabled) ==
  [appliance |-> f.appliance, power_kW |-> f.power_kw,
   duration_h |-> f.duration_h, start_hour |-> f.start, end_hour |-> f.end,
   variable |-> f.variable, enabled |-> enabled,
   before_hours |-> << >>, after_hours |-> << >>,
   base_power_kW |-> f.power_kw]

SmartLDS_apply_scenario(name) ==
  /\ BASE_LOAD' = SmartLDS_base_load(name, BASE_LOAD)
  /\ CO2_PER_HOUR' = SmartLDS_co2(name, CO2_PER_HOUR)
  /\ Rescheduled(ListOf([i \in DOMAIN ASSETS |->
                           [ASSETS[i] EXCEPT
                              !.power_kW = SmartLDS_power(name, ASSETS[i])]],
                        1, Len(ASSETS) + 1),
                 BASE_LOAD', flex_var, priority_var)
  /\ last_call' = Call("SmartLDS", name, "none")
  /\ UNCHANGED <<flex_var, priority_var, editing_index, var_enabled>>

on_scenario_change(name) ==
  /\ SmartLDS_apply_scenario(name)
  /\ UNCHANGED <<app_vars, search_vars>>

on_flex_change(v) ==
  /\ flex_var' = v
  /\ Rescheduled(ASSETS, BASE_LOAD, flex_var', priority_var)
  /\ UNCHANGED <<BASE_LOAD, CO2_PER_HOUR, priority_var, editing_index, var_enabled>>
  /\ UNCHANGED <<app_vars, search_vars, last_call>>

on_priority_change(v) ==
  /\ priority_var' = v
  /\ Rescheduled(ASSETS, BASE_LOAD, flex_var, priority_var')
  /\ UNCHANGED <<BASE_LOAD, CO2_PER_HOUR, flex_var, editing_index, var_enabled>>
  /\ UNCHANGED <<app_vars, search_vars, last_call>>

\* the user ticks or unticks the form's checkbox
set_var_enabled(b) ==
  /\ var_enabled' = b
  /\ UNCHANGED <<ASSETS, BASE_LOAD, CO2_PER_HOUR, flex_var, priority_var, g_before_load,
                 g_after_load, cost_before_flex, cost_after_flex,
                 editing_index>>
  /\ UNCHANGED <<app_vars, search_vars, last_call>>

add_asset(f) ==
  /\ Len(ASSETS) < MaxAssets
  /\ IF read_form_values(f)
       THEN /\ Rescheduled(Append(ASSETS, form_asset(f, var_enabled)),
                           BASE_LOAD, flex_var, priority_var)
            /\ var_enabled' = TRUE
            /\ editing_index' = 0
       ELSE UNCHANGED <<ASSETS, g_before_load, g_after_load, cost_before_flex,
                        cost_after_flex, var_enabled, editing_index>>
  /\ UNCHANGED <<BASE_LOAD, CO2_PER_HOUR, flex_var, priority_var>>
  /\ UNCHANGED <<app_vars, search_vars, last_call>>

load_selected_to_form(idx) ==
  /\ idx \in DOMAIN ASSETS
  /\ editing_index' = idx
  /\ var_enabled' = ASSETS[idx].enabled
  /\ UNCHANGED <<ASSETS, BASE_LOAD, CO2_PER_HOUR, flex_var, priority_var, g_before_load,
                 g_after_load, cost_before_flex, cost_after_flex>>
  /\ UNCHANGED <<app_vars, search_vars, last_call>>

save_changes(f) ==
  /\ editing_index # 0
  /\ editing_index \in DOMAIN ASSETS
  /\ IF read_form_values(f)
       THEN /\ Rescheduled([ASSETS EXCEPT
                              ![editing_index] = form_asset(f, var_enabled)],
                           BASE_LOAD, flex_var, priority_var)
            /\ var_enabled' = TRUE
            /\ editing_index' = 0
       ELSE UNCHANGED <<ASSETS, g_before_load, g_after_load, cost_before_flex,
                        cost_after_flex, var_enabled, editing_index>>
  /\ UNCHANGED <<BASE_LOAD, CO2_PER_HOUR, flex_var, priority_var>>
  /\ UNCHANGED <<app_vars, search_vars, last_call>>

toggle_enabled_selected(idx) ==
  /\ idx \in DOMAIN ASSETS
  /\ Rescheduled([ASSETS EXCEPT ![idx].enabled = ~ASSETS[idx].enabled],
                 BASE_LOAD, flex_var, priority_var)
  /\ UNCHANGED <<BASE_LOAD, CO2_PER_HOUR, flex_var, priority_var, editing_index, var_enabled>>
  /\ UNCHANGED <<app_vars, search_vars, last_call>>

delete_selected(idx) ==
  /\ idx \in DOMAIN ASSETS
  /\ Rescheduled(SubSeq(ASSETS, 1, idx - 1)
                   \o SubSeq(ASSETS, idx + 1, Len(ASSETS)),
                 BASE_LOAD, flex_var, priority_var)
  /\ editing_index' = 0
  /\ UNCHANGED <<BASE_LOAD, CO2_PER_HOUR, flex_var, priority_var, var_enabled>>
  /\ UNCHANGED <<app_vars, search_vars, last_call>>

(***************************************************************************)
(* ui_tk.py lines 1767-2064 : the grid searches of SmartLDS.  Each one     *)
(* walks flex and priority over range(0, 101, 10), recalculates at every   *)
(* grid point, keeps the first point with the strictly best objective and  *)
(* applies it.  The objectives are sums of normalised terms; a key is an   *)
(* objective times the product of the terms' denominators, which is the    *)
(* same for all grid points of one search.                                 *)
(***************************************************************************)

\* range(0, 101, 10)
GridSteps == ListOf([i \in 0 .. 10 |-> One * i], 0, 11)

\* lines 1813-1815: the sum of load[h] * co2[h] for h in lo..hi
RECURSIVE Emissions(_, _, _, _)
Emissions(load, co2, lo, hi) ==
  IF lo = hi THEN WAddProd(WZero, load[lo + 1], co2[lo + 1])
  ELSE LET mid == (lo + hi) \div 2
       IN  WAdd(Emissions(load, co2, lo, mid), Emissions(load, co2, mid + 1, hi))

\* the body of the two for loops (lines 1779-1782, 1805-1823, 1898-1920,
\* 1994-2013): what one grid point yields
GridPoint(as, bl, co2, flex, pr) ==
  With(recalculate_schedules(as, bl, flex \div One, pr \div One), LAMBDA r :
    [flex             |-> flex,
     priority         |-> pr,
     peak             |-> Peak(r.after_load),
     peak_before      |-> Peak(r.before_load),
     cost_before      |-> r.cost_before_flex,
     cost             |-> r.cost_after_flex,
     emissions_before |-> Emissions(r.before_load, co2, 0, NUM_HOURS - 1),
     emissions        |-> Emissions(r.after_load, co2, 0, NUM_HOURS - 1),
     ASSETS           |-> r.ASSETS])

\* for flex in range(0, 101, 10): for pr in range(0, 101, 10): flex is the
\* outer loop, pr the inner one
Scan(as, bl, co2) ==
  ListOf([k \in 0 .. (Len(GridSteps) * Len(GridSteps) - 1) |->
            GridPoint(as, bl, co2, GridSteps[(k \div Len(GridSteps)) + 1],
                      GridSteps[(k % Len(GridSteps)) + 1])],
         0, Len(GridSteps) * Len(GridSteps))

\* a later point replaces the best one also when it is as good
NotWorse(cmp) == cmp <= 0

\* "x < best": a later point replaces the best one only when strictly better
StrictlyBetter(cmp) == cmp < 0

\* no key: the point is skipped (line 2016, continue)
Skipped == << >>

\* the index of the point kept by
\*   best = None; for r in ...: if best is None or key(r) < key(best): best = r
\* run over keys[lo..hi], 0 when every point is skipped (lines 1783-1786,
\* 1830, 1849-1851, 1953-1955, 2015-2028)
RECURSIVE FirstBest(_, _, _)
FirstBest(keys, lo, hi) ==
  IF lo = hi THEN (IF keys[lo] = Skipped THEN 0 ELSE lo)
  ELSE With(FirstBest(keys, lo, (lo + hi) \div 2), LAMBDA i :
       With(FirstBest(keys, (lo + hi) \div 2 + 1, hi), LAMBDA j :
         IF i = 0 THEN j
         ELSE IF j = 0 THEN i
         ELSE IF StrictlyBetter(BigCmp(keys[j], keys[i])) THEN j ELSE i))

RECURSIVE BigMin(_, _, _)
BigMin(keys, lo, hi) ==
  IF lo = hi THEN keys[lo]
  ELSE With(BigMin(keys, lo, (lo + hi) \div 2), LAMBDA a :
       With(BigMin(keys, (lo + hi) \div 2 + 1, hi), LAMBDA b :
         IF BigCmp(b, a) < 0 THEN b ELSE a))

RECURSIVE BigMax(_, _, _)
BigMax(keys, lo, hi) ==
  IF lo = hi THEN keys[lo]
  ELSE With(BigMax(keys, lo, (lo + hi) \div 2), LAMBDA a :
       With(BigMax(keys, (lo + hi) \div 2 + 1, hi), LAMBDA b :
         IF BigCmp(b, a) > 0 THEN b ELSE a))

\* lines 1833-1836, 1926-1931: [r[...] for r in results] with its min and max
Column(vals) ==
  [vals |-> vals, lo |-> BigMin(vals, 1, Len(vals)),
   hi |-> BigMax(vals, 1, Len(vals))]

PeakColumn(rs) ==
  Column(ListOf([k \in DOMAIN rs |-> BigFromInt(rs[k].peak)], 1, Len(rs) + 1))

CostColumn(rs) ==
  Column(ListOf([k \in DOMAIN rs |-> BigFromW(rs[k].cost)], 1, Len(rs) + 1))

EmissionsColumn(rs) ==
  Column(ListOf([k \in DOMAIN rs |-> BigFromW(rs[k].emissions)], 1, Len(rs) + 1))

\* normalise / norm (lines 1838-1841, 1933-1936) of the k-th value of a
\* column, as numerator and denominator
NormNum(col, k) ==
  IF BigCmp(col.hi, col.lo) > 0 THEN BigSub(col.vals[k], col.lo) ELSE BigFromInt(0)

NormDen(col) ==
  IF BigCmp(col.hi, col.lo) > 0 THEN BigSub(col.hi, col.lo) ELSE BigFromInt(1)

\* line 1783: peak_a
MinPeakKeys(rs) == PeakColumn(rs).vals

\* line 1830: r["emissions_after"]
MinEmissionsKeys(rs) == EmissionsColumn(rs).vals

\* lines 1846-1848: 0.5 * peak_norm + 0.5 * em_norm, times
\* 2 * NormDen(peaks) * NormDen(ems)
BalancedKeys(rs) ==
  With(PeakColumn(rs), LAMBDA peaks :
  With(EmissionsColumn(rs), LAMBDA ems :
  With(NormDen(peaks), LAMBDA pd :
  With(NormDen(ems), LAMBDA ed :
    ListOf([k \in DOMAIN rs |->
              BigAdd(BigMul(NormNum(peaks, k), ed), BigMul(NormNum(ems, k), pd))],
           1, Len(rs) + 1)))))

\* lines 1946-1949: flex_penalty + priority_penalty, in hundredths
Penalty(r) ==
  (100 - r.flex) + 2 * (IF r.priority >= 50 THEN r.priority - 50
                        ELSE 50 - r.priority)

\* lines 1942-1951: (peak_norm + cost_norm + em_norm + flex_penalty
\* + priority_penalty) / 5, times 500 * NormDen(peaks) * NormDen(costs)
\* * NormDen(ems)
IdealKeys(rs) ==
  With(PeakColumn(rs), LAMBDA peaks :
  With(CostColumn(rs), LAMBDA costs :
  With(EmissionsColumn(rs), LAMBDA ems :
  With(NormDen(peaks), LAMBDA pd :
  With(NormDen(costs), LAMBDA cd :
  With(NormDen(ems), LAMBDA ed :
  With(BigMul(BigMul(cd, ed), BigFromInt(100)), LAMBDA ce :
  With(BigMul(BigMul(pd, ed), BigFromInt(100)), LAMBDA pe :
  With(BigMul(BigMul(pd, cd), BigFromInt(100)), LAMBDA pc :
  With(BigMul(BigMul(pd, cd), ed), LAMBDA pce :
    ListOf([k \in DOMAIN rs |->
              BigAdd(BigAdd(BigMul(NormNum(peaks, k), ce),
                            BigMul(NormNum(costs, k), pe)),
                     BigAdd(BigMul(NormNum(ems, k), pc),
                            BigMul(BigFromInt(Penalty(rs[k])), pce)))],
           1, Len(rs) + 1)))))))))))

\* no point is skipped
FeasibleAlways(r, first) == TRUE

\* a point that saves nothing is skipped as well
FeasibleStrict(r, first) ==
  /\ ~WLeq(first.cost_before, r.cost)
  /\ ~WLeq(first.emissions_before, r.emissions)

\* lines 1998-2003, 2012-2016: not (saving_cost < 0 or saving_co2 < 0), the
\* baseline being what the first grid point saw before the shift
Feasible(r, first) ==
  /\ WLeq(r.cost, first.cost_before)
  /\ WLeq(r.emissions, first.emissions_before)

\* lines 2015-2019: peak_after of the points that pass the two tests
IdealPeakKeys(rs) ==
  ListOf([k \in DOMAIN rs |->
            IF Feasible(rs[k], rs[1]) THEN BigFromInt(rs[k].peak) ELSE Skipped],
         1, Len(rs) + 1)

\* variant: the sliders stay where the scan left them
AppliedLast(as, flex, pr) ==
  /\ flex_var' = GridSteps[Len(GridSteps)]
  /\ priority_var' = GridSteps[Len(GridSteps)]
  /\ Rescheduled(as, BASE_LOAD, flex_var', priority_var')

\* flex_var.set(flex); priority_var.set(pr); on_flex_change(...);
\* on_priority_change(...) (lines 1789-1792, 1854-1857, 1957-1960,
\* 2038-2041) after a scan that left ASSETS as as
Applied(as, flex, pr) ==
  /\ flex_var' = flex
  /\ priority_var' = pr
  /\ Rescheduled(as, BASE_LOAD, flex, pr)

\* a search that returns before it applies anything (line 2036): the state
\* is that of the last grid point
NotApplied(rs) ==
  /\ flex_var' = rs[Len(rs)].flex
  /\ priority_var' = rs[Len(rs)].priority
  /\ Rescheduled(rs[Len(rs)].ASSETS, BASE_LOAD, flex_var', priority_var')

find_optimal_settings ==
  /\ \E rs \in {Scan(ASSETS, BASE_LOAD, CO2_PER_HOUR)} :
       \E best \in {FirstBest(MinPeakKeys(rs), 1, Len(rs))} :
         /\ results' = [search |-> "find_optimal_settings", points |-> rs]
         /\ Applied(rs[Len(rs)].ASSETS, rs[best].flex, rs[best].priority)
  /\ UNCHANGED <<BASE_LOAD, CO2_PER_HOUR, editing_index, var_enabled, showinfo>>
  /\ UNCHANGED <<app_vars, last_call>>

find_optimal_co2_settings ==
  /\ \E rs \in {Scan(ASSETS, BASE_LOAD, CO2_PER_HOUR)} :
       \E best_co2 \in {FirstBest(MinEmissionsKeys(rs), 1, Len(rs))},
          best_balanced \in {FirstBest(BalancedKeys(rs), 1, Len(rs))} :
         /\ results' = [search |-> "find_optimal_co2_settings", points |-> rs]
         /\ Applied(rs[Len(rs)].ASSETS, rs[best_co2].flex, rs[best_co2].priority)
         /\ showinfo' = [title             |-> "CO2 optimisation results",
                         flex              |-> rs[best_co2].flex,
                         priority          |-> rs[best_co2].priority,
                         balanced_flex     |-> rs[best_balanced].flex,
                         balanced_priority |-> rs[best_balanced].priority]
  /\ UNCHANGED <<BASE_LOAD, CO2_PER_HOUR, editing_index, var_enabled>>
  /\ UNCHANGED <<app_vars, last_call>>

find_ideal_settings ==
  /\ \E rs \in {Scan(ASSETS, BASE_LOAD, CO2_PER_HOUR)} :
       \E best_ideal \in {FirstBest(IdealKeys(rs), 1, Len(rs))} :
         /\ results' = [search |-> "find_ideal_settings", points |-> rs]
         /\ Applied(rs[Len(rs)].ASSETS, rs[best_ideal].flex,
                    rs[best_ideal].priority)
         /\ showinfo' = [title    |-> "Ideal balance result",
                         flex     |-> rs[best_ideal].flex,
                         priority |-> rs[best_ideal].priority]
  /\ UNCHANGED <<BASE_LOAD, CO2_PER_HOUR, editing_index, var_enabled>>
  /\ UNCHANGED <<app_vars, last_call>>

find_ideal_peak_settings ==
  /\ \E rs \in {Scan(ASSETS, BASE_LOAD, CO2_PER_HOUR)} :
       \E best_combo \in {FirstBest(IdealPeakKeys(rs), 1, Len(rs))} :
         /\ results' = [search |-> "find_ideal_peak_settings", points |-> rs]
         /\ IF best_combo = 0
              THEN /\ NotApplied(rs)
                   /\ showinfo' = [title |-> "Ideal peak result",
                                   text  |-> "No combination found"]
              ELSE /\ Applied(rs[Len(rs)].ASSETS, rs[best_combo].flex,
                              rs[best_combo].priority)
                   /\ showinfo' = [title    |-> "Ideal peak result",
                                   text     |-> "Ideal peak settings",
                                   flex     |-> rs[best_combo].flex,
                                   priority |-> rs[best_combo].priority]
  /\ UNCHANGED <<BASE_LOAD, CO2_PER_HOUR, editing_index, var_enabled>>
  /\ UNCHANGED <<app_vars, last_call>>

(***************************************************************************)
(* Specifications.  Both applications start on an empty catalog (what is   *)
(* left of the seeded one after the user has deleted every asset); Spec    *)
(* runs the handlers of the modular application, SpecSmartLDS those of     *)
(* SmartLDS.                                                               *)
(***************************************************************************)
Init ==
  /\ Constructed(<< >>)
  /\ deletes = 0
  /\ Started(<< >>)

Next ==
  \/ \E name \in ScenarioKeys : OnScenarioChange(name)
  \/ \E v \in FlexInputs : OnFlexChange(v)
  \/ \E v \in PriceWeightInputs : OnPriceWeightChange(v)
  \/ \E idx \in 1 .. MaxAssets : OnToggleAsset(idx)
  \/ \E idx \in 1 .. MaxAssets : OnDeleteAsset(idx)
  \/ \E f \in FormInputs : OnAddAsset(f)
  \/ \E idx \in 1 .. MaxAssets, f \in FormInputs : OnApplyEditToSelected(idx, f)
  \/ Recalculate

Spec == Init /\ [][Next]_vars

NextSmartLDS ==
  \/ \E name \in ScenarioKeys : on_scenario_change(name)
  \/ \E v \in SliderInputs : on_flex_change(v)
  \/ \E v \in SliderInputs : on_priority_change(v)
  \/ \E b \in EnabledInputs : set_var_enabled(b)
  \/ \E f \in FormInputs : add_asset(f)
  \/ \E idx \in 1 .. MaxAssets : load_selected_to_form(idx)
  \/ \E f \in FormInputs : save_changes(f)
  \/ \E idx \in 1 .. MaxAssets : toggle_enabled_selected(idx)
  \/ \E idx \in 1 .. MaxAssets : delete_selected(idx)

SpecSmartLDS == Init /\ [][NextSmartLDS]_vars

(***************************************************************************)
(* SpecSeeded: the modular application as constructed, on the 54 seeded    *)
(* assets, under the operations that keep the catalog's length.            *)
(***************************************************************************)
SeededFlexInputs == {0, 5, 10}

SeededPriceWeightInputs == {0, 5, 10}

SeededToggles == {1, 2}

InitSeeded ==
  /\ Constructed(initial_assets)
  /\ deletes = 0
  /\ Started(<< >>)

NextSeeded ==
  \/ \E name \in ScenarioKeys : OnScenarioChange(name)
  \/ \E v \in SeededFlexInputs : OnFlexChange(v)
  \/ \E v \in SeededPriceWeightInputs : OnPriceWeightChange(v)
  \/ \E idx \in SeededToggles : OnToggleAsset(idx)

SpecSeeded == InitSeeded /\ [][NextSeeded]_vars

(***************************************************************************)
(* SpecEngine: the two recompute functions on drawn inputs.  Init draws a  *)
(* catalog, a scenario, p and w, and gives the derived fields the values   *)
(* they have before the first recompute (logic.py lines 36-44, ui_tk.py    *)
(* lines 1103-1111); the actions are the two recomputes.                   *)
(***************************************************************************)
MaxCatalog == 2

EnginePct == {0, 5, 10}

Disabled(a) == [a EXCEPT !.enabled = FALSE]

EngineAssets ==
  { Asset("EV chargers (EV)",   KW(10), 2,  22, 6,  TRUE),
    Asset("Dishwasher (fixed)", KW(10), 3,  14, 24, FALSE),
    Asset("Sauna",              KW(25), 3,  20, 4,  FALSE),
    Asset("HVAC",               KW(0),  2,  8,  12, TRUE),
    Asset("Heat pump",          KW(15), 10, 18, 24, TRUE),
    Disabled(Asset("HVAC",      KW(30), 2,  17, 21, TRUE)) }

RECURSIVE Catalogs(_)
Catalogs(n) ==
  IF n = 0 THEN {<< >>}
  ELSE LET shorter == Catalogs(n - 1)
       IN  shorter \cup {Append(c, a) : c \in {x \in shorter : Len(x) = n - 1},
                                        a \in EngineAssets}

\* the dict of ASSETS for an Asset (ui_tk.py lines 808-820, 1103-1104)
SmartLDS_asset(a) ==
  [appliance |-> a.appliance, power_kW |-> a.power_kw,
   duration_h |-> a.duration_h, start_hour |-> a.start_hour,
   end_hour |-> a.end_hour, variable |-> a.variable, enabled |-> a.enabled,
   before_hours |-> << >>, after_hours |-> << >>,
   base_power_kW |-> a.power_kw]

\* both engines before their first recompute, on the catalog cat under the
\* scenario sc with the sliders at p and w (tenths)
EngineStart(cat, sc, p, w) ==
    /\ assets = cat
    /\ base_power = ListOf([i \in DOMAIN cat |-> cat[i].power_kw],
                           1, Len(cat) + 1)
    /\ current_scenario = sc
    /\ flex_participation = p
    /\ price_weight = w
    /\ before_load = get_scenarios[sc].base_load
    /\ after_load = get_scenarios[sc].base_load
    /\ cost_before_cents = WZero
    /\ cost_after_cents = WZero
    /\ deletes = 0
    /\ ASSETS = ListOf([i \in DOMAIN cat |-> SmartLDS_asset(cat[i])],
                       1, Len(cat) + 1)
    /\ BASE_LOAD = SmartLDS_base_load(sc, BASE_LOAD_BASELINE)
    /\ flex_var = p * One
    /\ priority_var = w * One
    /\ g_before_load = SmartLDS_base_load(sc, BASE_LOAD_BASELINE)
    /\ g_after_load = SmartLDS_base_load(sc, BASE_LOAD_BASELINE)
    /\ cost_before_flex = WZero
    /\ cost_after_flex = WZero
    /\ editing_index = 0
    /\ var_enabled = TRUE
    /\ CO2_PER_HOUR = SmartLDS_co2(sc, CO2_PER_HOUR_BASELINE)
    /\ results = NoSearch
    /\ showinfo = NoDialog
    /\ last_call = NoCall

InitEngine ==
  \E cat \in Catalogs(MaxCatalog), sc \in ScenarioKeys,
     p \in EnginePct, w \in EnginePct :
    EngineStart(cat, sc, p, w)

\* a direct call of recalculate_schedules
RecalculateSchedules ==
  /\ Rescheduled(ASSETS, BASE_LOAD, flex_var, priority_var)
  /\ UNCHANGED <<BASE_LOAD, CO2_PER_HOUR, flex_var, priority_var, editing_index, var_enabled>>
  /\ UNCHANGED <<app_vars, search_vars, last_call>>

NextEngine ==
  \/ Recalculate
  \/ RecalculateSchedules

SpecEngine == InitEngine /\ [][NextEngine]_vars

(***************************************************************************)
(* SpecSearch: SmartLDS started on a drawn catalog, under the scenario     *)
(* selector and the four grid searches.                                    *)
(***************************************************************************)
SearchCatalogs ==
  { <<Asset("HVAC",             KW(0),  2, 8,  12, TRUE)>>,
    <<Asset("HVAC",             KW(0),  2, 8,  12, TRUE),
      Asset("Dishwasher (fixed)", KW(0), 3, 14, 24, FALSE)>>,
    <<Asset("HVAC",             KW(30), 2, 8,  12, TRUE)>>,
    <<Asset("EV chargers (EV)", KW(10), 2, 22, 6,  TRUE)>>,
    <<Asset("Sauna",            KW(25), 3, 20, 4,  FALSE),
      Asset("HVAC",             KW(30), 2, 8,  12, TRUE)>> }

InitSearch ==
  /\ Constructed(<< >>)
  /\ deletes = 0
  /\ \E cat \in SearchCatalogs :
       Started(ListOf([i \in DOMAIN cat |-> SmartLDS_asset(cat[i])],
                      1, Len(cat) + 1))

NextSearch ==
  \/ \E name \in ScenarioKeys : on_scenario_change(name)
  \/ find_optimal_settings
  \/ find_optimal_co2_settings
  \/ find_ideal_settings
  \/ find_ideal_peak_settings

SpecSearch == InitSearch /\ [][NextSearch]_vars

(***************************************************************************)
(* SpecWindows: the two recomputes on one asset whose window runs over     *)
(* every start hour 0..23 and end hour 0..24.                              *)
(***************************************************************************)
WindowDurations == {1, 3, 10}

WindowWeights == {0, 5}

InitWindows ==
  \E st \in Hours, en \in 0 .. NUM_HOURS, d \in WindowDurations,
     v \in BOOLEAN, w \in WindowWeights :
    EngineStart(<<Asset("EV chargers (EV)", KW(10), d, st, en, v)>>,
                "Baseline", One, w)

NextWindows ==
  \/ Recalculate
  \/ RecalculateSchedules

SpecWindows == InitWindows /\ [][NextWindows]_vars

(***************************************************************************)
(* Direct calls of apply_scenario on both engines, with names inside and   *)
(* outside the scenario table, over catalogs of one or two labels          *)
(***************************************************************************)
ScenarioNames == ScenarioKeys \cup {"Summer"}

ScenarioLabels == {"Battery HVAC backup", "Heat pump", "Dishwasher (fixed)",
                   "EV chargers (EV)", "Sauna"}

ScenarioCatalogs ==
  {<<Asset(l, KW(10), 2, 8, 12, TRUE)>> : l \in ScenarioLabels}
    \cup {<<Asset(l, KW(10), 2, 8, 12, TRUE),
            Asset(m, KW(20), 3, 14, 24, FALSE)>> :
            l \in ScenarioLabels, m \in ScenarioLabels}

InitScenario ==
  \E cat \in ScenarioCatalogs :
      /\ Constructed(cat)
      /\ deletes = 0
      /\ Started(ListOf([i \in DOMAIN cat |-> SmartLDS_asset(cat[i])],
                        1, Len(cat) + 1))

\* Simulator.apply_scenario(name), called directly
Simulator_apply_scenario(name) ==
  /\ apply_scenario(name)
  /\ UNCHANGED <<deletes, lds_vars>>

\* the module function apply_scenario(name) of SmartLDS, called directly
SmartLDS_call_apply_scenario(name) ==
  /\ SmartLDS_apply_scenario(name)
  /\ UNCHANGED <<app_vars, search_vars>>

NextScenario ==
  \/ \E name \in ScenarioNames : Simulator_apply_scenario(name)
  \/ \E name \in ScenarioNames : SmartLDS_call_apply_scenario(name)

SpecScenario == InitScenario /\ [][NextScenario]_vars

(***************************************************************************)
(* The public setters of the Simulator and its recompute, from the         *)
(* constructor's p = 1.0 and w = 0.5, on the engine catalogs               *)
(***************************************************************************)
InitSetters ==
  \E cat \in Catalogs(MaxCatalog), sc \in ScenarioKeys :
    EngineStart(cat, sc, One, One \div 2)

NextSetters ==
  \/ Recalculate
  \/ \E v \in EnginePct : OnFlexChange(v)
  \/ \E v \in EnginePct : OnPriceWeightChange(v)

SpecSetters == InitSetters /\ [][NextSetters]_vars

(***************************************************************************)
(* The same operations on catalogs of up to three variable assets whose    *)
(* windows run into or out of the morning and evening peaks of the base    *)
(* load                                                                    *)
(***************************************************************************)
MaxPeakCatalog == 3

PeakAssets ==
  { Asset("EV chargers (EV)",   KW(10), 3, 14, 20, TRUE),
    Asset("Sauna",              KW(25), 2, 19, 24, TRUE),
    Asset("Heat pump",          KW(15), 2, 5,  10, TRUE),
    Asset("Fast chargers (EV)", KW(40), 2, 17, 23, TRUE) }

RECURSIVE PeakCatalogs(_)
PeakCatalogs(n) ==
  IF n = 0 THEN {<< >>}
  ELSE {Append(c, a) : c \in PeakCatalogs(n - 1), a \in PeakAssets}

InitPeak ==
  \E n \in 1 .. MaxPeakCatalog :
    \E cat \in PeakCatalogs(n), sc \in ScenarioKeys :
      EngineStart(cat, sc, One, One \div 2)

SpecPeak == InitPeak /\ [][NextSetters]_vars

(***************************************************************************)
(* Properties                                                              *)
(***************************************************************************)

\* some asset of the modular catalog is scheduled away from its naive hours
SomeAssetMoved ==
  \E i \in DOMAIN assets :
     /\ assets[i].before_hours # << >>
     /\ assets[i].after_hours # << >>
     /\ assets[i].after_hours # assets[i].before_hours

\* C1: with flex participation p = 0 the after curve equals the before curve
\* at every hour, in the modular engine and in SmartLDS, for every catalog,
\* scenario and price weight.
C1_ZeroParticipationKeepsLoad ==
  /\ flex_participation = 0 => after_load = before_load
  /\ flex_var = 0 => g_after_load = g_before_load

\* C1 witness: p = 0, both recomputes have run on a catalog that adds load,
\* an asset's hours were re-chosen, and the two curves are equal.
C1_Witness ==
  /\ flex_participation = 0
  /\ flex_var = 0
  /\ SomeAssetMoved
  /\ before_load # get_scenarios[current_scenario].base_load
  /\ after_load = before_load
  /\ g_before_load # BASE_LOAD
  /\ g_after_load = g_before_load

\* C2: after a recompute with p = 0 every enabled asset's after_hours is a
\* copy of its before_hours, in the modular engine and in SmartLDS.
C2_ZeroParticipationCopiesHours ==
  /\ flex_participation = 0 =>
       \A i \in DOMAIN assets :
          assets[i].enabled => assets[i].after_hours = assets[i].before_hours
  /\ flex_var = 0 =>
       \A i \in DOMAIN ASSETS :
          ASSETS[i].enabled => ASSETS[i].after_hours = ASSETS[i].before_hours

\* s without its element at position idx
RemoveAt(s, idx) == SubSeq(s, 1, idx - 1) \o SubSeq(s, idx + 1, Len(s))

\* C3: the stored base powers are captured at creation or edit time and are
\* otherwise kept: a step that removes an asset removes one entry of
\* base_power and keeps the others, a step that adds an asset keeps the
\* entries there were, and a step that keeps the catalog's length changes at
\* most the entry of one (edited) asset.
C3_BasePowerKept ==
  [][ /\ Len(assets') = Len(assets) - 1 =>
           \E idx \in DOMAIN base_power : base_power' = RemoveAt(base_power, idx)
      /\ Len(assets') = Len(assets) + 1 =>
           SubSeq(base_power', 1, Len(base_power)) = base_power
      /\ Len(assets') = Len(assets) =>
           /\ Len(base_power') = Len(base_power)
           /\ Cardinality({i \in DOMAIN base_power :
                              base_power'[i] # base_power[i]}) <= 1 ]_vars

\* the power of every asset is its base power times the current scenario's
\* factors for the keywords of its label
PowersScaledFromBase ==
  /\ Len(base_power) = Len(assets)
  /\ \A i \in DOMAIN assets :
        assets[i].power_kw =
          ScaledPower(base_power[i], assets[i].appliance,
                      get_scenarios[current_scenario].scaling_factors)

\* C4: after apply_scenario, whatever switches came before, every asset's
\* power is its stored base power times the scenario's factors for the
\* keywords in its label (1.4 times base for "EV" labels under Winter).
C4_PowerScaledFromBase ==
  /\ PowersScaledFromBase
  /\ current_scenario = "Winter" =>
       \A i \in DOMAIN assets :
          Contains(assets[i].appliance, "EV") =>
             assets[i].power_kw * One = 14 * base_power[i]

\* C4 witness: Winter is applied on the seeded catalog and an "EV" asset
\* runs at 1.4 times its base power, which is the seeded power.
C4_Witness ==
  /\ current_scenario = "Winter"
  /\ Len(assets) = Len(initial_assets)
  /\ Contains(assets[1].appliance, "EV")
  /\ base_power[1] = initial_assets[1].power_kw
  /\ assets[1].power_kw = (initial_assets[1].power_kw * 14) \div One
  /\ assets[1].power_kw > base_power[1]

\* C5: between operations of the modular application the curves, every
\* asset's hours and both costs are what a full recompute from the current
\* catalog, scenario, p and w gives.
C5_DerivedStateFresh ==
  \E r \in {recalculate(assets, get_scenarios[current_scenario],
                        flex_participation, price_weight, cost_after_cents)} :
      /\ assets = r.assets
      /\ before_load = r.before_load
      /\ after_load = r.after_load
      /\ cost_before_cents = r.cost_before_cents
      /\ cost_after_cents = r.cost_after_cents

\* C5 witness: two assets under the 2030 scenario with the price weight at
\* 1, an asset scheduled away from its naive hours.
C5_Witness ==
  /\ Len(assets) = 2
  /\ current_scenario = "Future"
  /\ price_weight = One
  /\ SomeAssetMoved
  /\ cost_after_cents # cost_before_cents

\* C6: no asset whose start hour equals its end hour is ever added to or
\* written into the catalog through the add and edit operations.
C6_NoEmptyWindowAsset ==
  \A i \in DOMAIN assets : assets[i].start_hour # assets[i].end_hour

\* C7: every asset entered through add or edit, in the modular application
\* and in SmartLDS, has 1 <= duration_h <= |window(start_hour, end_hour)|.
C7_DurationWithinWindow ==
  /\ \A i \in DOMAIN assets :
        /\ 1 <= assets[i].duration_h
        /\ assets[i].duration_h
             <= Len(get_window_hours(assets[i].start_hour, assets[i].end_hour))
  /\ \A i \in DOMAIN ASSETS :
        /\ 1 <= ASSETS[i].duration_h
        /\ ASSETS[i].duration_h
             <= Len(SmartLDS_get_window_hours(ASSETS[i].start_hour,
                                              ASSETS[i].end_hour))

\* C8: calling Simulator.recalculate twice in a row, the inputs unchanged,
\* gives the same curves, hours and costs as calling it once.
C8_RecalculateIdempotent ==
  \E r1 \in {recalculate(assets, get_scenarios[current_scenario],
                         flex_participation, price_weight, cost_after_cents)} :
    \E r2 \in {recalculate(r1.assets, get_scenarios[current_scenario],
                           flex_participation, price_weight,
                           r1.cost_after_cents)} :
       r2 = r1

\* C8 witness: recalculate has run on a catalog in which an asset is moved
\* and the after cost is not zero.
C8_Witness ==
  /\ SomeAssetMoved
  /\ cost_after_cents # WZero
  /\ after_load # before_load
  /\ Len(assets) = 2

\* the catalog is the seeded one (hours aside)
SeededCatalog ==
  /\ Len(assets) = Len(initial_assets)
  /\ \A i \in DOMAIN assets :
        [assets[i] EXCEPT !.before_hours = << >>, !.after_hours = << >>]
          = initial_assets[i]

\* C9: on the seeded catalog under Baseline with p = 1 and w = 0 the peak of
\* the after curve is at most the peak of the before curve.
C9_SeededPeakNotWorse ==
  (SeededCatalog /\ current_scenario = "Baseline"
     /\ flex_participation = One /\ price_weight = 0)
    => Peak(after_load) <= Peak(before_load)

\* C9 witness: that state, in which the peak falls from 423 kW to 295 kW.
C9_Witness ==
  /\ SeededCatalog
  /\ current_scenario = "Baseline"
  /\ flex_participation = One
  /\ price_weight = 0
  /\ Peak(before_load) = 423 * LoadScale
  /\ Peak(after_load) = 295 * LoadScale

\* every asset has a non-empty window that its duration fits
ValidAssets ==
  \A i \in DOMAIN assets :
     /\ assets[i].power_kw >= 0
     /\ assets[i].start_hour # assets[i].end_hour
     /\ 1 <= assets[i].duration_h
     /\ assets[i].duration_h
          <= Len(get_window_hours(assets[i].start_hour, assets[i].end_hour))

\* C10: for every catalog of valid assets, every base load and every p, a
\* recompute with w = 0 gives a peak of the after curve that is at most the
\* peak of the before curve.
C10_PeakNeverWorse ==
  (ValidAssets /\ price_weight = 0) => Peak(after_load) <= Peak(before_load)

\* position in the scan of the grid point (flex, pr)
GridIndex(flex, pr) == (flex \div One) * Len(GridSteps) + (pr \div One) + 1

AllZeroPower == \A i \in DOMAIN ASSETS : ASSETS[i].power_kW = 0

\* C11: when every asset of the catalog has power 0, the constrained
\* ideal-peak search sees a cost saving of 0 and a CO2 saving of 0 at every
\* grid point, does not report that no combination was found, and reports
\* the first grid point, flex 0 and priority 0.
C11_ZeroPowerSearchFeasible ==
  (results.search = "find_ideal_peak_settings" /\ AllZeroPower) =>
    /\ \A k \in DOMAIN results.points :
         /\ results.points[k].cost = results.points[1].cost_before
         /\ results.points[k].emissions = results.points[1].emissions_before
    /\ showinfo.title = "Ideal peak result"
    /\ showinfo.text = "Ideal peak settings"
    /\ showinfo.flex = 0
    /\ showinfo.priority = 0

C11_Witness ==
  /\ results.search = "find_ideal_peak_settings"
  /\ Len(ASSETS) = 2
  /\ AllZeroPower
  /\ showinfo.text = "Ideal peak settings"

\* the grid points of the last scan whose cost saving and CO2 saving against
\* the baseline are both >= 0
FeasiblePoints ==
  {k \in DOMAIN results.points :
     /\ WLeq(results.points[k].cost, results.points[1].cost_before)
     /\ WLeq(results.points[k].emissions, results.points[1].emissions_before)}

\* C12: the constrained ideal-peak search reports that no combination was
\* found exactly when no grid point has both savings >= 0; otherwise the
\* point it reports is one of those points and no such point has a lower
\* peak_after.
C12_IdealPeakFeasibleMinimum ==
  results.search = "find_ideal_peak_settings" =>
    /\ showinfo.title = "Ideal peak result"
    /\ (showinfo.text = "No combination found") <=> (FeasiblePoints = {})
    /\ FeasiblePoints # {} =>
         /\ showinfo.text = "Ideal peak settings"
         /\ GridIndex(showinfo.flex, showinfo.priority) \in FeasiblePoints
         /\ \A k \in FeasiblePoints :
              results.points[GridIndex(showinfo.flex, showinfo.priority)].peak
                <= results.points[k].peak

\* a search whose reported point has a higher peak than some point that
\* fails the constraints
C12_Witness ==
  /\ results.search = "find_ideal_peak_settings"
  /\ showinfo.text = "Ideal peak settings"
  /\ \E k \in DOMAIN results.points \ FeasiblePoints :
       results.points[k].peak
         < results.points[GridIndex(showinfo.flex, showinfo.priority)].peak

\* the grid point the last search selected for the engine: for the min-peak
\* search, which shows no dialog, the first point of minimal peak; for the
\* others the point their dialog reports as the setting applied
SelectedPoint ==
  IF results.search = "find_optimal_settings"
    THEN CHOOSE k \in DOMAIN results.points :
           /\ \A j \in DOMAIN results.points :
                results.points[k].peak <= results.points[j].peak
           /\ \A j \in 1 .. (k - 1) :
                results.points[k].peak < results.points[j].peak
    ELSE GridIndex(showinfo.flex, showinfo.priority)

SearchSelected ==
  /\ results.search # "none"
  /\ results.search = "find_ideal_peak_settings" =>
       showinfo.text = "Ideal peak settings"

\* C13: once a grid search has selected a point, flex_var and priority_var
\* are that point (for the CO2 search the point of minimal emissions), and
\* ASSETS, both load curves and both costs are what recalculate_schedules
\* yields at that point, whatever the last grid point evaluated was.
C13_SearchLeavesWinnerApplied ==
  SearchSelected =>
    /\ flex_var = results.points[SelectedPoint].flex
    /\ priority_var = results.points[SelectedPoint].priority
    /\ results.search = "find_optimal_co2_settings" =>
         \A j \in DOMAIN results.points :
           WLeq(results.points[SelectedPoint].emissions,
                results.points[j].emissions)
    /\ \E r \in {recalculate_schedules(ASSETS, BASE_LOAD, flex_var \div One,
                                       priority_var \div One)} :
         /\ ASSETS = r.ASSETS
         /\ g_before_load = r.before_load
         /\ g_after_load = r.after_load
         /\ cost_before_flex = r.cost_before_flex
         /\ cost_after_flex = r.cost_after_flex

\* a CO2 search whose selected point is neither the last grid point nor the
\* balanced point, and that moved an asset
C13_Witness ==
  /\ results.search = "find_optimal_co2_settings"
  /\ <<flex_var, priority_var>> = <<showinfo.flex, showinfo.priority>>
  /\ SelectedPoint # Len(results.points)
  /\ <<showinfo.balanced_flex, showinfo.balanced_priority>>
       # <<showinfo.flex, showinfo.priority>>
  /\ \E i \in DOMAIN ASSETS : ASSETS[i].after_hours # ASSETS[i].before_hours

\* keys[k] is the best key and every earlier key is strictly worse
FirstOfBest(keys, k) ==
  /\ keys[k] # Skipped
  /\ \A j \in DOMAIN keys :
       keys[j] # Skipped => BigCmp(keys[k], keys[j]) <= 0
  /\ \A j \in 1 .. (k - 1) :
       keys[j] # Skipped => BigCmp(keys[j], keys[k]) > 0

\* a later point has the same key as point k
TiedLater(keys, k) ==
  \E j \in (k + 1) .. Len(keys) :
    keys[j] # Skipped /\ BigCmp(keys[j], keys[k]) = 0

\* the scan visits flex in ascending order and, for each flex, priority in
\* ascending order
ScanOrder ==
  \A k \in DOMAIN results.points :
    /\ results.points[k].flex = One * ((k - 1) \div Len(GridSteps))
    /\ results.points[k].priority = One * ((k - 1) % Len(GridSteps))

\* C14: every grid search scans flex ascending in the outer loop and
\* priority ascending in the inner loop, and the point each policy keeps
\* (min peak, min emissions, balanced, ideal balance, constrained ideal peak)
\* has the best objective with every earlier point strictly worse: of the
\* points with equal objective the earliest one wins.
C14_FirstBestWins ==
  /\ results.search # "none" => ScanOrder
  /\ results.search = "find_optimal_settings" =>
       \E keys \in {MinPeakKeys(results.points)} :
         FirstOfBest(keys, GridIndex(flex_var, priority_var))
  /\ results.search = "find_optimal_co2_settings" =>
       /\ \E keys \in {MinEmissionsKeys(results.points)} :
            FirstOfBest(keys, GridIndex(showinfo.flex, showinfo.priority))
       /\ \E keys \in {BalancedKeys(results.points)} :
            FirstOfBest(keys, GridIndex(showinfo.balanced_flex,
                                        showinfo.balanced_priority))
  /\ results.search = "find_ideal_settings" =>
       \E keys \in {IdealKeys(results.points)} :
         FirstOfBest(keys, GridIndex(showinfo.flex, showinfo.priority))
  /\ (results.search = "find_ideal_peak_settings"
        /\ showinfo.text = "Ideal peak settings") =>
       \E keys \in {IdealPeakKeys(results.points)} :
         FirstOfBest(keys, GridIndex(showinfo.flex, showinfo.priority))

\* a CO2 search in which the min-emissions point and the balanced point are
\* not the first grid point and each has a later point of equal objective
C14_Witness ==
  /\ results.search = "find_optimal_co2_settings"
  /\ GridIndex(showinfo.flex, showinfo.priority) > 1
  /\ GridIndex(showinfo.balanced_flex, showinfo.balanced_priority) > 1
  /\ \E keys \in {MinEmissionsKeys(results.points)} :
       TiedLater(keys, GridIndex(showinfo.flex, showinfo.priority))
  /\ \E keys \in {BalancedKeys(results.points)} :
       TiedLater(keys, GridIndex(showinfo.balanced_flex,
                                 showinfo.balanced_priority))

\* the hours start, start + 1, ... up to but not including end, counted
\* modulo 24, a full turn when start >= end
WindowFrom(start, end) ==
  [i \in 1 .. (IF start < end THEN end - start ELSE NUM_HOURS - start + end)
     |-> (start + i - 1) % NUM_HOURS]

WindowAsSpecified(window, start, end) ==
  /\ window = WindowFrom(start, end)
  /\ start < end => window = Range(start, end)
  /\ start >= end => window = Range(start, NUM_HOURS) \o Range(0, end)
  /\ \A i \in DOMAIN window : window[i] \in Hours
  /\ \A i, j \in DOMAIN window : i # j => window[i] # window[j]

FirstOfWindow(start, end, duration) ==
  SubSeq(WindowFrom(start, end), 1,
         Min2(duration, Len(WindowFrom(start, end))))

\* C16: a before-pass leaves every enabled asset, in both engines, with
\* before_hours equal to the first min(duration_h, |window|) hours of its
\* window in window order (late-evening hours before early-morning ones when
\* the window wraps); duration 10 on a 6-hour window gives the 6 window hours.
C16_BeforeHoursFirstOfWindow ==
  [][/\ assets' # assets =>
          \A i \in DOMAIN assets' :
            assets'[i].enabled =>
              assets'[i].before_hours
                = FirstOfWindow(assets'[i].start_hour, assets'[i].end_hour,
                                assets'[i].duration_h)
     /\ ASSETS' # ASSETS =>
          \A i \in DOMAIN ASSETS' :
            ASSETS'[i].enabled =>
              ASSETS'[i].before_hours
                = FirstOfWindow(ASSETS'[i].start_hour, ASSETS'[i].end_hour,
                                ASSETS'[i].duration_h)]_vars

\* chosen is what duration greedy picks from the window yield: every pick
\* is an hour not picked before, no hour still available has a lower score,
\* and every available hour that comes earlier in the window has a higher one
PicksAreGreedy(window, scores, chosen, duration) ==
  /\ Len(chosen) = Min2(duration, Len(window))
  /\ \A k \in DOMAIN chosen : \E i \in DOMAIN window : window[i] = chosen[k]
  /\ \A j, k \in DOMAIN chosen : j # k => chosen[j] # chosen[k]
  /\ \A k \in DOMAIN chosen : \A i \in DOMAIN window :
       (\A j \in 1 .. (k - 1) : chosen[j] # window[i]) =>
         /\ ~ScoreLess(scores[window[i] + 1], scores[chosen[k] + 1])
         /\ (\E m \in (i + 1) .. Len(window) : window[m] = chosen[k]) =>
              ScoreLess(scores[chosen[k] + 1], scores[window[i] + 1])
  /\ \A k \in DOMAIN chosen : \A i \in DOMAIN window :
       (\A j \in DOMAIN chosen : chosen[j] # window[i]) =>
         ~ScoreLess(scores[window[i] + 1], scores[chosen[k] + 1])

\* C17: for a variable asset with p > 0 (here the only asset of the
\* catalog, so that the load it is scored on is before_load less its
\* participating power at its before_hours), in both engines, each of the
\* duration picks takes an available window hour of minimal score, the
\* earliest in window order among those of equal score; the chosen hours
\* are pairwise distinct and no unchosen window hour scores strictly lower
\* than a chosen one.
C17_GreedyPicksEarliestMinimum ==
  /\ (Len(assets) = 1 /\ flex_participation > 0) =>
       \A i \in DOMAIN assets :
         (assets[i].variable /\ assets[i].before_hours # << >>) =>
           \E scores \in {Scores(get_window_hours(assets[i].start_hour,
                                                  assets[i].end_hour),
                                 AddAt(before_load, assets[i].before_hours,
                                       0 - assets[i].power_kw * flex_participation),
                                 price_weight)} :
             PicksAreGreedy(get_window_hours(assets[i].start_hour,
                                             assets[i].end_hour),
                            scores, assets[i].after_hours, assets[i].duration_h)
  /\ (Len(ASSETS) = 1 /\ flex_var > 0) =>
       \A i \in DOMAIN ASSETS :
         (ASSETS[i].variable /\ ASSETS[i].before_hours # << >>) =>
           \E scores \in {Scores(SmartLDS_get_window_hours(ASSETS[i].start_hour,
                                                           ASSETS[i].end_hour),
                                 AddAt(g_before_load, ASSETS[i].before_hours,
                                       0 - ASSETS[i].power_kW * (flex_var \div One)),
                                 priority_var \div One)} :
             PicksAreGreedy(SmartLDS_get_window_hours(ASSETS[i].start_hour,
                                                      ASSETS[i].end_hour),
                            scores, ASSETS[i].after_hours, ASSETS[i].duration_h)

\* on the wrapped window 22 .. 6 with the grid weight only, every hour
\* scores the same and both engines pick 22, 23, 0, not 0, 1, 2
C17_Witness ==
  /\ Len(assets) = 1
  /\ assets[1].variable
  /\ flex_participation > 0
  /\ assets[1].start_hour = 22
  /\ assets[1].end_hour = 6
  /\ assets[1].after_hours = <<22, 23, 0>>
  /\ ASSETS[1].after_hours = <<22, 23, 0>>

\* what the enabled assets of as put on hour h: their remaining power at
\* their before_hours and their participating power at their after_hours
PlacedAt(as, h, p_flex) ==
  SumInt([i \in DOMAIN as |->
            IF as[i].enabled
              THEN RemainPower(as[i].power_kw, p_flex)
                     * Occurrences(as[i].before_hours, h)
                   + ParticipatePower(as[i].power_kw, p_flex)
                     * Occurrences(as[i].after_hours, h)
              ELSE 0], 1, Len(as))

\* C18: with p = 1 nothing of an asset's power is left at its naive hours:
\* at every hour after_load is the base load plus the power_kw of the
\* enabled assets whose after_hours contain the hour; and at every p the
\* participating and the remaining power of an asset add up to its power_kw
\* and after_load is the base load plus the remaining power at the
\* before_hours plus the participating power at the after_hours.
C18_NoResidualAtFullParticipation ==
  /\ flex_participation = One =>
       \A h \in Hours :
         after_load[h + 1]
           = get_scenarios[current_scenario].base_load[h + 1]
             + SumInt([i \in DOMAIN assets |->
                         IF assets[i].enabled
                              /\ \E k \in DOMAIN assets[i].after_hours :
                                   assets[i].after_hours[k] = h
                           THEN assets[i].power_kw * One ELSE 0],
                      1, Len(assets))
  /\ \A i \in DOMAIN assets :
       ParticipatePower(assets[i].power_kw, flex_participation)
         + RemainPower(assets[i].power_kw, flex_participation)
       = assets[i].power_kw * One
  /\ \A h \in Hours :
       after_load[h + 1]
         = get_scenarios[current_scenario].base_load[h + 1]
           + PlacedAt(assets, h, flex_participation)

\* p = 1, a recompute has moved an asset away from its naive hours and the
\* two curves differ
C18_Witness ==
  /\ flex_participation = One
  /\ Len(assets) = 2
  /\ \A i \in DOMAIN assets : assets[i].enabled /\ assets[i].power_kw > 0
  /\ SomeAssetMoved
  /\ after_load # before_load

\* the categories of the scenario tables and the keywords that select them
CategoryKeywords ==
  [EV |-> {"EV"}, HVAC |-> {"HVAC", "Heat"}, Battery |-> {"Battery"},
   Sauna |-> {"Sauna"}]

MatchingCategories(label) ==
  {c \in DOMAIN CategoryKeywords :
     \E kw \in CategoryKeywords[c] : Contains(label, kw)}

\* the product of f[c] over the categories cs
RECURSIVE Product(_, _)
Product(f, cs) ==
  IF cs = {} THEN 1
  ELSE LET c == CHOOSE x \in cs : TRUE
       IN  f[c] * Product(f, cs \ {c})

\* power = base * the factors (tenths) of every category the label matches
Compounded(power, base, label, name) ==
  LET cs == MatchingCategories(label)
      sf == get_scenarios[name].scaling_factors
  IN  power * Product([c \in cs |-> One], cs)
        = base * Product([c \in cs |-> FactorGet(sf, c)], cs)

\* the scenario the globals of SmartLDS were last set for
SmartLDS_scenario ==
  CHOOSE name \in ScenarioKeys :
    CO2_PER_HOUR = SmartLDS_co2(name, CO2_PER_HOUR_BASELINE)

\* C19: category scaling compounds. In either engine every asset's power is
\* its base power times the factors of all the categories whose keyword its
\* label contains ("Heat" selecting the HVAC factor), so "Battery HVAC
\* backup" under "2030 future" gets 1.9 x 1.9 and a label with no keyword
\* gets 1.0
C19_CategoryFactorsCompound ==
  /\ \A i \in DOMAIN assets :
       Compounded(assets[i].power_kw, base_power[i], assets[i].appliance,
                  current_scenario)
  /\ \A i \in DOMAIN ASSETS :
       Compounded(ASSETS[i].power_kW, ASSETS[i].base_power_kW,
                  ASSETS[i].appliance, SmartLDS_scenario)

\* the half of C19 that is about the Simulator of logic.py
SimulatorFactorsCompound ==
  \A i \in DOMAIN assets :
    Compounded(assets[i].power_kw, base_power[i], assets[i].appliance,
               current_scenario)

\* a compounding label has been scaled by the Simulator under "2030 future"
SimulatorCompoundReached ==
  /\ current_scenario = "Future"
  /\ \E i \in DOMAIN assets :
       /\ assets[i].appliance = "Battery HVAC backup"
       /\ assets[i].power_kw * (One * One) = base_power[i] * (19 * 19)

\* C20: apply_scenario with a name outside the scenario table ends with a
\* not-found outcome (the KeyError of the table lookup) and leaves the
\* whole state of both engines as it was
C20_UnknownScenarioNotFound ==
  [][\A name \in ScenarioNames \ DOMAIN get_scenarios :
       (Simulator_apply_scenario(name) \/ SmartLDS_call_apply_scenario(name))
         => /\ last_call'.raised = "KeyError"
            /\ UNCHANGED <<app_vars, lds_vars>>]_vars

\* the half of C20 that is about the Simulator of logic.py
SimulatorUnknownNotFound ==
  [][\A name \in ScenarioNames \ DOMAIN get_scenarios :
       Simulator_apply_scenario(name)
         => /\ last_call'.raised = "KeyError"
            /\ UNCHANGED <<app_vars, lds_vars>>]_vars

\* SmartLDS leaves its globals as they were for a name outside the table
SmartLDSUnknownKeepsState ==
  [][\A name \in ScenarioNames \ DOMAIN get_scenarios :
       SmartLDS_call_apply_scenario(name) => UNCHANGED <<app_vars, lds_vars>>]_vars

\* an unknown name has been given to the Simulator after a scenario change
SimulatorUnknownReached ==
  /\ last_call = Call("Simulator", "Summer", "KeyError")
  /\ current_scenario = "Winter"

\* the sum of power * price[h] over the pairs (asset, hour) numbered lo..hi
\* (pair k is asset k \div 24 + 1 at hour k % 24) in which the asset is
\* enabled and the hour is one of its before_hours; power in 1/1000 kW
RECURSIVE NaivePairsCost(_, _, _)
NaivePairsCost(as, lo, hi) ==
  IF lo > hi THEN WZero
  ELSE IF lo = hi
    THEN IF /\ as[(lo \div NUM_HOURS) + 1].enabled
            /\ \E k \in DOMAIN as[(lo \div NUM_HOURS) + 1].before_hours :
                 as[(lo \div NUM_HOURS) + 1].before_hours[k] = lo % NUM_HOURS
           THEN WAddProd(WZero, as[(lo \div NUM_HOURS) + 1].power_kw * One,
                         Price(lo % NUM_HOURS))
           ELSE WZero
  ELSE WAdd(NaivePairsCost(as, lo, (lo + hi) \div 2),
            NaivePairsCost(as, (lo + hi) \div 2 + 1, hi))

\* C21: after every recompute of the Simulator, at each hour h before_load
\* is the current scenario's base load plus the power_kw of the enabled
\* assets whose before_hours contain h, cost_before is the sum of
\* power_kw * price[h] over the same (asset, hour) pairs, and a disabled
\* asset has no before_hours and no after_hours
C21_BeforeCurveIsNaiveSum ==
  /\ \A h \in Hours :
       before_load[h + 1]
         = get_scenarios[current_scenario].base_load[h + 1]
           + SumInt([i \in DOMAIN assets |->
                       IF assets[i].enabled
                            /\ \E k \in DOMAIN assets[i].before_hours :
                                 assets[i].before_hours[k] = h
                         THEN assets[i].power_kw * One ELSE 0],
                    1, Len(assets))
  /\ cost_before_cents = NaivePairsCost(assets, 0, Len(assets) * NUM_HOURS - 1)
  /\ \A i \in DOMAIN assets :
       ~assets[i].enabled =>
         assets[i].before_hours = << >> /\ assets[i].after_hours = << >>

\* a recompute has put an enabled asset on the before curve next to a
\* disabled one that is left off it
C21_Witness ==
  /\ Len(assets) = 2
  /\ ~assets[1].enabled
  /\ assets[1].power_kw > 0
  /\ assets[2].enabled
  /\ assets[2].before_hours = <<22, 23>>
  /\ before_load[22 + 1]
       = get_scenarios[current_scenario].base_load[22 + 1] + KW(10) * One
  /\ before_load[17 + 1] = get_scenarios[current_scenario].base_load[17 + 1]
  /\ cost_before_cents # WZero

\* chosen is a run of min(duration, |window|) consecutive window positions
\* whose summed score no other such run undercuts and every run further
\* left exceeds
BlockIsBest(window, scores, chosen, duration) ==
  \E d \in {Min2(duration, Len(window))} :
    \E i \in 0 .. (Len(window) - d) :
      /\ chosen = SubSeq(window, i + 1, i + d)
      /\ \A j \in 0 .. (Len(window) - d) :
           /\ ~ScoreLess(BlockScore(window, scores, j, d),
                         BlockScore(window, scores, i, d))
           /\ j < i => ScoreLess(BlockScore(window, scores, i, d),
                                 BlockScore(window, scores, j, d))

\* C22: for a fixed-block asset that the after-pass places (p > 0, power
\* above zero, before_hours not empty; here the only asset of the catalog, so
\* that the load it is scored on is before_load less its participating power
\* at its before_hours), in both engines, after_hours is a run of exactly
\* min(duration_h, |window|) consecutive positions of the window sequence,
\* across midnight where the window wraps, of minimal summed score, the
\* leftmost of the runs with that sum.
C22_FixedBlockLeftmostMinimum ==
  /\ (Len(assets) = 1 /\ flex_participation > 0) =>
       \A i \in DOMAIN assets :
         (~assets[i].variable /\ assets[i].power_kw > 0
            /\ assets[i].before_hours # << >>) =>
           \E scores \in {Scores(get_window_hours(assets[i].start_hour,
                                                  assets[i].end_hour),
                                 AddAt(before_load, assets[i].before_hours,
                                       0 - assets[i].power_kw * flex_participation),
                                 price_weight)} :
             BlockIsBest(get_window_hours(assets[i].start_hour,
                                          assets[i].end_hour),
                         scores, assets[i].after_hours, assets[i].duration_h)
  /\ (Len(ASSETS) = 1 /\ flex_var > 0) =>
       \A i \in DOMAIN ASSETS :
         (~ASSETS[i].variable /\ ASSETS[i].power_kW > 0
            /\ ASSETS[i].before_hours # << >>) =>
           \E scores \in {Scores(SmartLDS_get_window_hours(ASSETS[i].start_hour,
                                                           ASSETS[i].end_hour),
                                 AddAt(g_before_load, ASSETS[i].before_hours,
                                       0 - ASSETS[i].power_kW * (flex_var \div One)),
                                 priority_var \div One)} :
             BlockIsBest(SmartLDS_get_window_hours(ASSETS[i].start_hour,
                                                   ASSETS[i].end_hour),
                         scores, ASSETS[i].after_hours, ASSETS[i].duration_h)

\* both engines have moved a three-hour block of a wrapped window, longer
\* than the block, to a run that crosses midnight
C22_Witness ==
  /\ Len(assets) = 1
  /\ ~assets[1].variable
  /\ flex_participation > 0
  /\ assets[1].start_hour > assets[1].end_hour
  /\ Len(assets[1].after_hours) = 3
  /\ assets[1].after_hours[1] > assets[1].after_hours[3]
  /\ assets[1].after_hours # assets[1].before_hours
  /\ ASSETS[1].after_hours = assets[1].after_hours

\* what the schedule engine may only read of a catalog: every asset's
\* fields other than its hours, in catalog order
CatalogOf(as) ==
  [i \in DOMAIN as |->
     [appliance |-> as[i].appliance, power_kw |-> as[i].power_kw,
      duration_h |-> as[i].duration_h, start_hour |-> as[i].start_hour,
      end_hour |-> as[i].end_hour, variable |-> as[i].variable,
      enabled |-> as[i].enabled]]

\* C23: Simulator.recalculate, set_flex_participation and set_price_weight
\* write only the two curves, the two cost accumulators, the assets'
\* before_hours and after_hours and, for the setters, p or w: no asset's
\* power_kw, duration_h, start_hour, end_hour, variable or enabled flag, nor
\* the base_power map, the catalog order or the selected scenario (whose
\* curves, like the price curve, are fixed tables) is changed by them.
C23_RecomputeWriteSet ==
  [][/\ (Recalculate \/ (\E v \in EnginePct : OnFlexChange(v))
                     \/ (\E v \in EnginePct : OnPriceWeightChange(v)))
          => /\ CatalogOf(assets') = CatalogOf(assets)
             /\ base_power' = base_power
             /\ current_scenario' = current_scenario
             /\ get_scenarios[current_scenario'].base_load
                  = get_scenarios[current_scenario].base_load
     /\ Recalculate
          => flex_participation' = flex_participation
               /\ price_weight' = price_weight
     /\ (\E v \in EnginePct : OnFlexChange(v))
          => price_weight' = price_weight
     /\ (\E v \in EnginePct : OnPriceWeightChange(v))
          => flex_participation' = flex_participation]_vars

\* both setters have acted on a catalog of two enabled assets in which the
\* second is the larger: the hours have been assigned, the catalog is in the
\* order it had
C23_Witness ==
  /\ Len(assets) = 2
  /\ flex_participation = 0
  /\ price_weight = One
  /\ assets[2].power_kw > assets[1].power_kw
  /\ assets[1].enabled
  /\ assets[1].before_hours # << >>
  /\ assets[2].before_hours # << >>
  /\ base_power = <<assets[1].power_kw, assets[2].power_kw>>

\* power >= 0 and 1 <= duration <= window length for every asset of as
Validated(as) ==
  \A i \in DOMAIN as :
    /\ as[i].power_kw >= 0
    /\ as[i].duration_h >= 1
    /\ as[i].duration_h
         <= Len(get_window_hours(as[i].start_hour, as[i].end_hour))

\* the energy under a curve: its sum over the 24 hours
DailyEnergy(load) == SumInt([h \in Hours |-> load[h + 1]], 0, NUM_HOURS - 1)

\* C24: the after-pass conserves the daily energy: for every catalog of
\* validated assets, every scenario and every p and w, the sum of
\* after_load over the 24 hours equals that of before_load
C24_DailyEnergyConserved ==
  Validated(assets) => DailyEnergy(after_load) = DailyEnergy(before_load)

\* a recompute at p = 0.5 has moved half of the power of two validated
\* assets, one variable and one a fixed block, and the curves differ
C24_Witness ==
  /\ Len(assets) = 2
  /\ Validated(assets)
  /\ flex_participation = One \div 2
  /\ assets[1].enabled /\ assets[1].variable
  /\ assets[2].enabled /\ ~assets[2].variable
  /\ assets[1].after_hours # assets[1].before_hours
  /\ assets[2].after_hours # assets[2].before_hours
  /\ after_load # before_load
  /\ DailyEnergy(before_load)
       > DailyEnergy(get_scenarios[current_scenario].base_load)

\* hours has n entries, none twice, all of the window from start to end
HoursWithin(hours, n, start, end) ==
  /\ Len(hours) = n
  /\ \A j, k \in DOMAIN hours : j # k => hours[j] # hours[k]
  /\ \A k \in DOMAIN hours :
       \E m \in DOMAIN get_window_hours(start, end) :
         get_window_hours(start, end)[m] = hours[k]

\* C25: after every recompute of the Simulator every enabled asset, one of
\* power 0 included, has as many after_hours as before_hours, no hour twice
\* and every hour inside its window
C25_AfterHoursMatchBeforeHours ==
  \A i \in DOMAIN assets :
    assets[i].enabled =>
      HoursWithin(assets[i].after_hours, Len(assets[i].before_hours),
                  assets[i].start_hour, assets[i].end_hour)

\* the same for the enabled assets of power above zero
PoweredAfterHoursMatch ==
  \A i \in DOMAIN assets :
    (assets[i].enabled /\ assets[i].power_kw > 0) =>
      HoursWithin(assets[i].after_hours, Len(assets[i].before_hours),
                  assets[i].start_hour, assets[i].end_hour)

\* C26: with the price weight w = 1 (grid weight 0) shifting never costs
\* more than the naive schedule: for every catalog of validated assets,
\* variable or fixed-block, every scenario and every p, cost_after is at
\* most cost_before after a recompute of the Simulator
C26_PriceOnlyNeverCostsMore ==
  (price_weight = One /\ Validated(assets)) =>
    WLeq(cost_after_cents, cost_before_cents)

\* at w = 1 a recompute has moved a variable asset and a fixed block of a
\* validated catalog and the cost has fallen
C26_Witness ==
  /\ price_weight = One
  /\ flex_participation > 0
  /\ Len(assets) = 2
  /\ Validated(assets)
  /\ assets[1].enabled /\ assets[1].variable
  /\ assets[2].enabled /\ ~assets[2].variable
  /\ assets[1].after_hours # assets[1].before_hours
  /\ assets[2].after_hours # assets[2].before_hours
  /\ cost_after_cents # cost_before_cents
  /\ WLeq(cost_after_cents, cost_before_cents)

\* after_load once the first k assets of the placement order have been
\* placed, the others still at their naive hours
LoadAfterStep(k) ==
  AfterLoop([assets |-> assets, load |-> before_load, cost |-> WZero],
            SortedEnabled(assets), 1, k, flex_participation,
            price_weight).load

\* C27: in a catalog whose enabled assets are all variable, with w = 0 and
\* any p, no placement step of the Simulator's after-pass raises the peak:
\* after each asset is placed max(after_load) is at most what it was before
\* that asset was processed, and so max(after_load) <= max(before_load)
C27_NoStepRaisesPeak ==
  (price_weight = 0 /\ \A i \in DOMAIN assets :
                         assets[i].enabled => assets[i].variable) =>
    /\ \A k \in 1 .. Len(SortedEnabled(assets)) :
         Peak(LoadAfterStep(k)) <= Peak(LoadAfterStep(k - 1))
    /\ LoadAfterStep(Len(SortedEnabled(assets))) = after_load
    /\ Peak(after_load) <= Peak(before_load)

\* at w = 0 a recompute has placed two enabled variable assets of power
\* above zero, the first of them away from its naive hours, and the peak
\* has fallen
C27_Witness ==
  /\ price_weight = 0
  /\ flex_participation > 0
  /\ Len(assets) = 2
  /\ \A i \in DOMAIN assets :
       assets[i].enabled /\ assets[i].variable /\ assets[i].power_kw > 0
  /\ assets[1].after_hours # << >>
  /\ assets[1].after_hours # assets[1].before_hours
  /\ assets[2].after_hours # << >>
  /\ after_load # before_load
  /\ assets[1].power_kw # assets[2].power_kw
  /\ Peak(after_load) < Peak(before_load)

\* C28: the constrained ideal-peak search never ends without a combination:
\* for every catalog and scenario its first grid point, flex 0 and priority
\* 0, has after-values equal to its before-values, so that its cost saving
\* and its CO2 saving are 0 and pass both tests
C28_IdealPeakAlwaysFindsPoint ==
  results.search = "find_ideal_peak_settings" =>
    /\ results.points[1].flex = 0
    /\ results.points[1].priority = 0
    /\ results.points[1].peak = results.points[1].peak_before
    /\ results.points[1].cost = results.points[1].cost_before
    /\ results.points[1].emissions = results.points[1].emissions_before
    /\ 1 \in FeasiblePoints
    /\ showinfo.title = "Ideal peak result"
    /\ showinfo.text # "No combination found"

\* a search under a scenario other than the baseline, on a catalog with
\* power above zero, in which some grid point fails the tests and the first
\* one does not
C28_Witness ==
  /\ results.search = "find_ideal_peak_settings"
  /\ ~AllZeroPower
  /\ BASE_LOAD # BASE_LOAD_BASELINE
  /\ \E k \in DOMAIN results.points : k \notin FeasiblePoints
  /\ 1 \in FeasiblePoints
  /\ showinfo.text = "Ideal peak settings"

\* both engines hold the same catalog, base-load curve, p and w
SameInput ==
  /\ Len(ASSETS) = Len(assets)
  /\ \A i \in DOMAIN assets :
       /\ ASSETS[i].power_kW = assets[i].power_kw
       /\ ASSETS[i].duration_h = assets[i].duration_h
       /\ ASSETS[i].start_hour = assets[i].start_hour
       /\ ASSETS[i].end_hour = assets[i].end_hour
       /\ ASSETS[i].variable = assets[i].variable
       /\ ASSETS[i].enabled = assets[i].enabled
  /\ BASE_LOAD = get_scenarios[current_scenario].base_load
  /\ flex_var = flex_participation * One
  /\ priority_var = price_weight * One

\* every asset has power > 0, start # end and 1 <= duration <= window length
ValidInput ==
  \A i \in DOMAIN assets :
    /\ assets[i].power_kw > 0
    /\ assets[i].start_hour # assets[i].end_hour
    /\ assets[i].duration_h >= 1
    /\ assets[i].duration_h
         <= Len(get_window_hours(assets[i].start_hour, assets[i].end_hour))

\* both engines have recomputed: on valid input every enabled asset then
\* has before_hours
BothRecomputed ==
  /\ \A i \in DOMAIN assets :
       assets[i].enabled => assets[i].before_hours # << >>
  /\ \A i \in DOMAIN ASSETS :
       ASSETS[i].enabled => ASSETS[i].before_hours # << >>

\* C29: on valid input (every asset with power > 0, start # end and
\* 1 <= duration <= window length) and for every p > 0 and every w,
\* Simulator.recalculate and recalculate_schedules, given the same base-load
\* curve, price curve and asset list, produce the same before_load,
\* after_load, per-asset before_hours and after_hours, cost_before and
\* cost_after
C29_EnginesAgreeOnValidInput ==
  (SameInput /\ ValidInput /\ flex_participation > 0 /\ BothRecomputed) =>
    /\ g_before_load = before_load
    /\ g_after_load = after_load
    /\ \A i \in DOMAIN assets :
         /\ ASSETS[i].before_hours = assets[i].before_hours
         /\ ASSETS[i].after_hours = assets[i].after_hours
    /\ cost_before_flex = cost_before_cents
    /\ cost_after_flex = cost_after_cents

\* both engines have recomputed a valid catalog of a variable asset and a
\* larger fixed block at p = 0.5 and have moved both
C29_Witness ==
  /\ SameInput /\ ValidInput /\ BothRecomputed
  /\ flex_participation = One \div 2
  /\ Len(assets) = 2
  /\ assets[1].enabled /\ assets[1].variable
  /\ assets[2].enabled /\ ~assets[2].variable
  /\ assets[2].power_kw > assets[1].power_kw
  /\ ASSETS[1].after_hours # ASSETS[1].before_hours
  /\ ASSETS[2].after_hours # ASSETS[2].before_hours
  /\ g_after_load # g_before_load
  /\ cost_after_flex # cost_before_flex

\* C30: in every state of the modular application, after any of its
\* operations, each asset's power_kw is its stored base power times the
\* factors of the selected scenario for its label; an asset added or edited
\* while "Winter weekday" or "2030 future" is selected is scheduled with
\* the scaled power, as it would be after the scenario is applied again
C30_PowerFollowsSelectedScenario ==
  /\ Len(base_power) = Len(assets)
  /\ \A i \in DOMAIN assets :
       \E again \in {ScaledPower(base_power[i], assets[i].appliance,
                                 get_scenarios[current_scenario].scaling_factors)} :
         /\ assets[i].power_kw = again
         /\ Compounded(assets[i].power_kw, base_power[i],
                       assets[i].appliance, current_scenario)

====
